---- MODULE Spec2Model ----
(***************************************************************************)
(* State-machine model of the printer integration core of                  *)
(* monashautomation/inventory-system:                                      *)
(*   - the shared Bambu MQTT pool        (src/src/server/lib/s3.ts 89-336) *)
(*   - the Bambu status monitor/dispatch (src/src/server/lib/bambu.ts)     *)
(*   - the print router and dispatchToPrinter                              *)
(*                                  (src/src/server/api/routers/print.ts)  *)
(*   - the metrics gauge store     (src/server/metrics/bambuCollector.ts)  *)
(* Strings are sequences of one-character strings, so that the allow-list  *)
(* patterns and the text sanitizers are computed character by character.   *)
(***************************************************************************)
EXTENDS Integers, Sequences, FiniteSets, Bags, TLC

\* ------------------------------------------------------------------------
\* Bounds of the model
\* ------------------------------------------------------------------------
MaxClients == 4
MaxSyncs == 2
MaxEdits == 1
MaxJobs == 2
MaxPublishes == 3
TicksPerIdle == 2

\* ------------------------------------------------------------------------
\* Generic helpers
\* ------------------------------------------------------------------------
Range(s) == {s[i] : i \in 1..Len(s)}

Min(a, b) == IF a < b THEN a ELSE b

Rep(ch, n) == [i \in 1..n |-> ch]

RemoveAt(s, i) == SubSeq(s, 1, i - 1) \o SubSeq(s, i + 1, Len(s))

\* ------------------------------------------------------------------------
\* Character classes and the Bambu allow-list patterns
\* ------------------------------------------------------------------------
LowerAlpha ==
    <<"a", "b", "c", "d", "e", "f", "g", "h", "i", "j", "k", "l", "m",
      "n", "o", "p", "q", "r", "s", "t", "u", "v", "w", "x", "y", "z">>
UpperAlpha ==
    <<"A", "B", "C", "D", "E", "F", "G", "H", "I", "J", "K", "L", "M",
      "N", "O", "P", "Q", "R", "S", "T", "U", "V", "W", "X", "Y", "Z">>
Letters == Range(LowerAlpha) \cup Range(UpperAlpha)
Digits == {"0", "1", "2", "3", "4", "5", "6", "7", "8", "9"}
AlphaNum == Letters \cup Digits
NUL == "\\0"
ControlChars == {NUL, "\n", "\t", "\r"}

IndexOf(seq, ch) == CHOOSE k \in 1..Len(seq) : seq[k] = ch

toUpperCase(s) ==
    [i \in 1..Len(s) |->
        IF s[i] \in Range(LowerAlpha) THEN UpperAlpha[IndexOf(LowerAlpha, s[i])] ELSE s[i]]

toLowerCase(s) ==
    [i \in 1..Len(s) |->
        IF s[i] \in Range(UpperAlpha) THEN LowerAlpha[IndexOf(UpperAlpha, s[i])] ELSE s[i]]

WhiteSpace == {" ", "\n", "\t", "\r"}

RECURSIVE trimStart(_)
trimStart(s) == IF s # <<>> /\ Head(s) \in WhiteSpace THEN trimStart(Tail(s)) ELSE s

RECURSIVE trimEnd(_)
trimEnd(s) ==
    IF s # <<>> /\ s[Len(s)] \in WhiteSpace THEN trimEnd(SubSeq(s, 1, Len(s) - 1)) ELSE s

trim(s) == trimEnd(trimStart(s))

endsWith(s, suffix) ==
    Len(s) >= Len(suffix) /\ SubSeq(s, Len(s) - Len(suffix) + 1, Len(s)) = suffix

\* A literal fragment of a message (text the program itself supplies) is
\* written as one element; text that comes from a device or from an input is
\* kept character by character.
Lit(fragment) == <<fragment>>

SERIAL_NUMBER_RE(s) == Len(s) \in 1..30 /\ \A i \in 1..Len(s) : s[i] \in AlphaNum

SAFE_FILENAME_RE(s) ==
    Len(s) \in 1..120 /\ \A i \in 1..Len(s) : s[i] \in AlphaNum \cup {".", "_", "-"}

\* ------------------------------------------------------------------------
\* Example values of the roster fields
\* ------------------------------------------------------------------------
SerialA == <<"0", "1", "S">>
SerialB == <<"0", "2", "S">>
SerialBad == <<"0", "/", "#">>
NoText == <<>>
TokenA == <<"k", "1">>
TokenB == <<"k", "2">>
IpOne == "10.0.0.1"
IpTwo == "10.0.0.2"
IPs == {IpOne, IpTwo}
isIP(ip) == IF ip \in IPs THEN 4 ELSE 0

Serials == {SerialA, SerialB, SerialBad}
Row(t, ip, tok, ser) ==
    [name |-> "P" \o ip, type |-> t, ipAddress |-> ip, authToken |-> tok, serialNumber |-> ser]

\* Representative rows an administrator can store (createPrinter / updatePrinter
\* accept any string as token and serial number; the IP address is unique).
RowValues ==
    {Row("BAMBU", IpOne, TokenA, SerialA), Row("BAMBU", IpOne, TokenB, SerialA),
     Row("BAMBU", IpOne, NoText, SerialA),
     Row("BAMBU", IpTwo, TokenA, SerialA), Row("BAMBU", IpTwo, TokenA, SerialB),
     Row("PRUSA", IpTwo, TokenA, NoText)}

\* Printer tables the store may hold when the server starts
InitRosters ==
    {<<>>, <<Row("BAMBU", IpOne, TokenA, SerialA)>>,
     <<Row("BAMBU", IpOne, TokenA, SerialA), Row("BAMBU", IpTwo, TokenA, SerialA)>>,
     <<Row("BAMBU", IpOne, TokenA, SerialA), Row("BAMBU", IpTwo, TokenA, SerialB)>>}

ClientIds == 1..MaxClients

\* A new client object: a handle distinct from every handle in use
Fresh(used) == CHOOSE n \in 1..(Cardinality(used) + 1) :
                   n \notin used /\ \A m \in 1..(n - 1) : m \in used

VARIABLES
    printers,           \* Printer table of the store, in the order findMany returns it
    edits,              \* number of roster edits made so far
    clients,            \* live MQTT clients: handle -> [kind, serialNumber, ipAddress, password, connected, ended]
    pool,               \* Map<serial, PoolEntry>
    listeners,          \* Set<BambuMessageListener>
    syncIntervalHandle, \* TRUE when the handle refers to a running interval
    leakedInterval,     \* TRUE when an interval runs that no handle refers to any more
    syncs,              \* bag of suspended syncBambuMqttPool calls: [kind, ok, rows]
    rosterSynced        \* history: the last completed sync applied the roster the store still holds

VARIABLES
    topics,             \* history: serial numbers a subscribed or published topic was built from
    monitorCache,       \* bambu.ts monitorCache: Map<serial, BambuMonitorEntry>
    timers,             \* pending idle timeouts: <<client of the entry that armed it, serial>>
                        \* mapped to the milliseconds since setTimeout
    idleFor,            \* history: milliseconds since getBambuStatus was last called for a serial
    jobs,               \* GcodePrintJob rows: [printer, file, status]
    rc,                 \* the print-router call in flight
    dp,                 \* the dispatchToPrinter call in flight
    bd,                 \* the dispatchToBambu call in flight
    outcome             \* what the last finished router call wrote and answered

VARIABLES
    BAMBU_BRIDGE_MOCK_SUCCESS,  \* process.env.BAMBU_BRIDGE_MOCK_SUCCESS, "" when unset
    sendCall,                   \* a sendPrintCommand call followed event by event
    delivered,                  \* history: the listener calls made for the last pool message
    afterShutdown,              \* history: shutdownBambuMqttPool has returned and neither
                                \* initBambuMqttPool nor syncBambuMqttPool was called since
    merged,                     \* a cached status followed merge by merge: [before, report, after]
    metricsCache,               \* bambuCollector.ts metricsCache: Map<serial, [printerName, store]>
    reported                    \* history: the last message the metrics listener got and
                                \* the cache it found

VARIABLES
    prusa                       \* one collectPrusaMetrics run: its scrapes, the requests sent,
                                \* printerModelCache and what the run settled with
VARIABLES
    stateFlag,                  \* a getStateFlag call: the /api/printer answer and the result
    collected                   \* a collectMetrics call: what its sections settle with and
                                \* the text it resolves with

VARIABLES
    handshake,                  \* history, per pool client: the connect events, the subscribe
                                \* calls, their callbacks and the publishes, in order
    sanitized,                  \* a sanitizeFilename call: the name given and the result
    listenerInit                \* bambuCollector.ts registeredListener: whether it holds a
                                \* listener, and the initBambuMetricsListener calls made

rosterVars == <<printers, edits>>
connVars == <<clients>>
poolVars == <<pool, listeners, syncIntervalHandle, leakedInterval, syncs, rosterSynced>>
monVars == <<monitorCache, timers, idleFor>>
printVars == <<jobs, rc, dp, bd, outcome>>
otherVars == <<topics, monVars, printVars>>

moreVars == <<prusa, stateFlag, collected, handshake, sanitized, listenerInit>>
exceptPrusa == <<stateFlag, collected, handshake, sanitized, listenerInit>>
exceptStateFlag == <<prusa, collected, handshake, sanitized, listenerInit>>
exceptCollected == <<prusa, stateFlag, handshake, sanitized, listenerInit>>
exceptHandshake == <<prusa, stateFlag, collected, sanitized, listenerInit>>
exceptListenerInit == <<prusa, stateFlag, collected, handshake, sanitized>>
exceptSanitized == <<prusa, stateFlag, collected, handshake, listenerInit>>

extVars ==
    <<BAMBU_BRIDGE_MOCK_SUCCESS, sendCall, delivered, afterShutdown, merged, metricsCache,
      reported, moreVars>>

vars == <<rosterVars, connVars, poolVars, otherVars, extVars>>

\* ------------------------------------------------------------------------
\* Printer table (print.ts createPrinter / updatePrinter / deletePrinter)
\* ------------------------------------------------------------------------
createPrinter(row) ==
    /\ edits < MaxEdits
    /\ \A i \in 1..Len(printers) : printers[i].ipAddress # row.ipAddress
    /\ printers' = Append(printers, row)
    /\ edits' = edits + 1
    /\ rosterSynced' = FALSE
    /\ UNCHANGED <<extVars, connVars, pool, listeners, syncIntervalHandle, leakedInterval,
                   syncs, otherVars>>

updatePrinter(i, row) ==
    /\ edits < MaxEdits
    /\ i \in 1..Len(printers)
    /\ row # printers[i]
    /\ \A j \in 1..Len(printers) : j # i => printers[j].ipAddress # row.ipAddress
    /\ printers' = [printers EXCEPT ![i] = row]
    /\ edits' = edits + 1
    /\ rosterSynced' = FALSE
    /\ UNCHANGED <<extVars, connVars, pool, listeners, syncIntervalHandle, leakedInterval,
                   syncs, otherVars>>

deletePrinter(i) ==
    /\ edits < MaxEdits
    /\ i \in 1..Len(printers)
    /\ printers' = RemoveAt(printers, i)
    /\ edits' = edits + 1
    /\ rosterSynced' = FALSE
    /\ UNCHANGED <<extVars, connVars, pool, listeners, syncIntervalHandle, leakedInterval,
                   syncs, otherVars>>

\* prisma.printer.findMany({ where: { type: "BAMBU" } })
BambuRoster(tbl) == SelectSeq(tbl, LAMBDA r : r.type = "BAMBU")

\* ------------------------------------------------------------------------
\* Pool: connectPrinter / disconnectPrinter / the body of syncBambuMqttPool.
\* A pool state st is [pool, clients, next].
\* ------------------------------------------------------------------------
PoolEntry(c, printer) ==
    [client |-> c, printerName |-> printer.name, ipAddress |-> printer.ipAddress,
     authToken |-> printer.authToken, connecting |-> TRUE]

MqttClient(kind, printer) ==
    [kind |-> kind, serialNumber |-> printer.serialNumber, ipAddress |-> printer.ipAddress,
     password |-> printer.authToken, connected |-> FALSE, ended |-> FALSE]

Put(f, k, v) == [x \in DOMAIN f \cup {k} |-> IF x = k THEN v ELSE f[x]]
Drop(f, k) == [x \in DOMAIN f \ {k} |-> f[x]]

connectPrinter(st, printer) ==
    IF printer.serialNumber \in DOMAIN st.pool THEN st
    ELSE LET c == Fresh(st.used) IN
         [pool |-> Put(st.pool, printer.serialNumber, PoolEntry(c, printer)),
          clients |-> Put(st.clients, c, MqttClient("pool", printer)),
          used |-> st.used \cup {c}]

\* variant: the entry is deleted but its client is not ended
disconnectPrinter_noEnd(st, serial) ==
    IF serial \notin DOMAIN st.pool THEN st
    ELSE [pool |-> Drop(st.pool, serial), clients |-> st.clients, used |-> st.used]

disconnectPrinter(st, serial) ==
    IF serial \notin DOMAIN st.pool THEN st
    ELSE [pool |-> Drop(st.pool, serial),
          clients |-> Drop(st.clients, st.pool[serial].client),
          used |-> st.used]

RECURSIVE SyncRoster(_, _, _)
SyncRoster(st, rows, i) ==
    IF i > Len(rows) THEN st
    ELSE LET printer == rows[i] IN
         IF printer.authToken = NoText \/ printer.serialNumber = NoText
         THEN SyncRoster(st, rows, i + 1)
         ELSE IF printer.serialNumber \in DOMAIN st.pool
              THEN LET existing == st.pool[printer.serialNumber] IN
                   IF existing.ipAddress # printer.ipAddress
                        \/ existing.authToken # printer.authToken
                   THEN SyncRoster(connectPrinter(disconnectPrinter(st, printer.serialNumber),
                                                  printer), rows, i + 1)
                   ELSE SyncRoster(st, rows, i + 1)
              ELSE SyncRoster(connectPrinter(st, printer), rows, i + 1)

dbSerials(rows) ==
    {rows[i].serialNumber : i \in {j \in 1..Len(rows) :
        rows[j].authToken # NoText /\ rows[j].serialNumber # NoText}}

RECURSIVE DisconnectAll(_, _)
DisconnectAll(st, serials) ==
    IF serials = {} THEN st
    ELSE LET s == CHOOSE x \in serials : TRUE IN
         DisconnectAll(disconnectPrinter(st, s), serials \ {s})

\* variant: printers that left the roster are kept
SyncBody_noRemoval(st, rows) == SyncRoster(st, rows, 1)

SyncBody(st, rows) ==
    LET afterLoop == SyncRoster(st, rows, 1) IN
    DisconnectAll(afterLoop, DOMAIN afterLoop.pool \ dbSerials(rows))

PoolState == [pool |-> pool, clients |-> clients, used |-> DOMAIN clients]

\* ------------------------------------------------------------------------
\* syncBambuMqttPool as a suspended call.  The call has no effect before its
\* await, so the first step is the call together with the store answering
\* the roster query (with the rows it holds at that moment, or an error);
\* the second step is the continuation, which runs without suspension.
\* kind is "init" when the caller is initBambuMqttPool, which goes on to
\* start the interval once its sync has returned.
\* ------------------------------------------------------------------------
Call(kind, ok, rows) == [kind |-> kind, ok |-> ok, rows |-> rows]

SyncStart(kind) ==
    /\ BagCardinality(syncs) < MaxSyncs
    /\ \/ syncs' = syncs (+) SetToBag({Call(kind, TRUE, BambuRoster(printers))})
       \/ syncs' = syncs (+) SetToBag({Call(kind, FALSE, <<>>)})
    /\ afterShutdown' = FALSE
    /\ UNCHANGED <<rosterVars, BAMBU_BRIDGE_MOCK_SUCCESS, sendCall, delivered, merged,
                   metricsCache, reported, moreVars, connVars, pool, listeners, syncIntervalHandle,
                   leakedInterval,
                   rosterSynced, otherVars>>

syncBambuMqttPool == SyncStart("sync")

initBambuMqttPool == SyncStart("init")

\* setInterval(syncBambuMqttPool, SYNC_INTERVAL_MS) fires
SyncIntervalTick == (syncIntervalHandle \/ leakedInterval) /\ SyncStart("sync")

\* initBambuMqttPool continues after its sync: setInterval, the handle is
\* overwritten (an interval it referred to keeps running)
InitContinuation(call) ==
    IF call.kind = "init"
    THEN /\ syncIntervalHandle' = TRUE
         /\ leakedInterval' = (leakedInterval \/ syncIntervalHandle)
    ELSE UNCHANGED <<syncIntervalHandle, leakedInterval>>

SyncResume(call) ==
    /\ BagIn(call, syncs)
    /\ call.ok
    /\ LET st == SyncBody(PoolState, call.rows) IN
        /\ st.used \subseteq ClientIds
        /\ pool' = st.pool
        /\ clients' = st.clients
    /\ InitContinuation(call)
    /\ syncs' = syncs (-) SetToBag({call})
    /\ rosterSynced' = (call.rows = BambuRoster(printers))
    /\ UNCHANGED <<rosterVars, extVars, listeners, otherVars>>

SyncCatch(call) ==
    /\ BagIn(call, syncs)
    /\ ~call.ok
    /\ InitContinuation(call)
    /\ syncs' = syncs (-) SetToBag({call})
    /\ UNCHANGED <<rosterVars, extVars, connVars, pool, listeners, rosterSynced, otherVars>>

shutdownBambuMqttPool ==
    /\ LET st == DisconnectAll(PoolState, DOMAIN pool) IN
        /\ pool' = st.pool
        /\ clients' = st.clients
    /\ syncIntervalHandle' = FALSE
    /\ listeners' = {}
    /\ rosterSynced' = FALSE
    /\ afterShutdown' = TRUE
    /\ UNCHANGED <<rosterVars, BAMBU_BRIDGE_MOCK_SUCCESS, sendCall, delivered, merged,
                   metricsCache, reported, moreVars, leakedInterval, syncs, otherVars>>

\* ------------------------------------------------------------------------
\* Events of a pool client (handlers registered by connectPrinter)
\* ------------------------------------------------------------------------
PoolClientIds == {c \in DOMAIN clients : clients[c].kind = "pool"}

\* client.on("connect"): entry.connecting = false, subscribe to the report topic
PoolClientConnect(c) ==
    /\ c \in PoolClientIds
    /\ ~clients[c].connected
    /\ clients' = [clients EXCEPT ![c].connected = TRUE]
    /\ pool' = [s \in DOMAIN pool |->
                  IF pool[s].client = c THEN [pool[s] EXCEPT !.connecting = FALSE] ELSE pool[s]]
    /\ topics' = topics \cup {clients[c].serialNumber}
    /\ UNCHANGED <<rosterVars, extVars, listeners, syncIntervalHandle, leakedInterval,
                   syncs, rosterSynced, monVars, printVars>>

\* client.on("close"): no cleanup, the client reconnects by itself
PoolClientClose(c) ==
    /\ c \in PoolClientIds
    /\ clients[c].connected
    /\ clients' = [clients EXCEPT ![c].connected = FALSE]
    /\ UNCHANGED <<rosterVars, extVars, poolVars, otherVars>>

\* ------------------------------------------------------------------------
\* bambu.ts: input validation
\* ------------------------------------------------------------------------
Undefined == <<"undefined">>
NoError == <<>>

hasControlChar(s) == \E i \in 1..Len(s) : s[i] \in ControlChars

\* the message of the Error validateBambuInputs throws, NoError when it returns
validateBambuInputs(ipAddress, accessCode, serialNumber, fileName) ==
    IF isIP(ipAddress) = 0 THEN Lit("Invalid IP address for Bambu printer.")
    ELSE IF accessCode = NoText \/ hasControlChar(accessCode)
    THEN Lit("Invalid or missing Bambu access code.")
    ELSE IF serialNumber # Undefined /\ serialNumber # NoText /\ ~SERIAL_NUMBER_RE(serialNumber)
    THEN Lit("Invalid Bambu serial number.")
    ELSE IF fileName # Undefined /\ (fileName = NoText \/ ~SAFE_FILENAME_RE(fileName))
    THEN Lit("Invalid file name for Bambu upload.")
    ELSE NoError

\* ------------------------------------------------------------------------
\* bambu.ts: the cached status and mergeReportIntoStatus.
\* A JSON value is [t, n, s]: its typeof, its number (1 and 0 for true and
\* false), its string.  A JSON object is [fields], the function from the keys
\* it carries to their values, next to its object- and array-valued members.
\* A nullable field of the status is None for null and Some(v) for the value v.
\* ------------------------------------------------------------------------
Absent == [t |-> "undefined", n |-> 0, s |-> NoText]
Num(n) == [t |-> "number", n |-> n, s |-> NoText]
Str(s) == [t |-> "string", n |-> 0, s |-> s]
Bool(b) == [t |-> "boolean", n |-> IF b THEN 1 ELSE 0, s |-> NoText]

\* object[key], undefined when the object does not carry the key
Field(object, key) == IF key \in DOMAIN object.fields THEN object.fields[key] ELSE Absent

None == <<>>
Some(v) == <<v>>

DecimalDigits == <<"0", "1", "2", "3", "4", "5", "6", "7", "8", "9">>

\* parseInt(s, 10) as [nan, n]: leading white space, an optional sign, then
\* the longest run of decimal digits; NaN when there is no digit
parseInt(s) ==
    LET t == trimStart(s)
        signed == t # <<>> /\ Head(t) \in {"-", "+"}
        body == IF signed THEN Tail(t) ELSE t
        RECURSIVE digits(_, _, _)
        digits(i, count, acc) ==
            IF i > Len(body) \/ body[i] \notin Digits THEN [count |-> count, n |-> acc]
            ELSE digits(i + 1, count + 1, acc * 10 + IndexOf(DecimalDigits, body[i]) - 1)
        d == digits(1, 0, 0)
    IN IF d.count = 0 THEN [nan |-> TRUE, n |-> 0]
       ELSE [nan |-> FALSE, n |-> IF signed /\ Head(t) = "-" THEN 0 - d.n ELSE d.n]

\* a tray object that carries no key
NoTray == [fields |-> <<>>]

\* an object-valued key of a report: [t, o]; an array-valued key: [t, a]
NoObject(o) == [t |-> "undefined", o |-> o]
Object(o) == [t |-> "object", o |-> o]
NoArray == [t |-> "undefined", a |-> <<>>]
Array(a) == [t |-> "array", a |-> a]

\* the ams object: its scalar keys and its array of units ams.ams
NoAms == [fields |-> <<>>, ams |-> NoArray]

\* the print object of a message that carries no key
NoReport == [fields |-> <<>>, ams |-> NoObject(NoAms), vt_tray |-> NoObject(NoTray)]

createEmptyStatus ==
    [gcodeState |-> <<"U", "N", "K", "N", "O", "W", "N">>, nozzleTemp |-> None, targetNozzleTemp |-> None,
     bedTemp |-> None, targetBedTemp |-> None, chamberTemp |-> None, progress |-> None,
     remainingTimeMinutes |-> None, fileName |-> None, filamentType |-> None,
     amsTrays |-> <<>>, layerNum |-> None, totalLayerNum |-> None, lastUpdated |-> 0]

\* as AmsTrayInfo, but a tray is empty when it has no tray_type
AmsTrayInfo_emptyWithoutType(trayId, t) ==
    [trayId |-> trayId,
     trayType |-> IF Field(t, "tray_type").t = "string" THEN Field(t, "tray_type").s ELSE NoText,
     traySubBrands |-> IF Field(t, "tray_sub_brands").t = "string" THEN Field(t, "tray_sub_brands").s ELSE NoText,
     trayColor |-> IF Field(t, "tray_color").t = "string" THEN Field(t, "tray_color").s ELSE NoText,
     trayInfoIdx |-> IF Field(t, "tray_info_idx").t = "string" THEN Field(t, "tray_info_idx").s ELSE NoText,
     remain |-> IF Field(t, "remain").t = "number" THEN Field(t, "remain").n ELSE -1,
     isEmpty |-> Field(t, "tray_type").t # "string"]

\* the AmsTrayInfo pushed for the tray object t
AmsTrayInfo(trayId, t) ==
    [trayId |-> trayId,
     trayType |-> IF Field(t, "tray_type").t = "string" THEN Field(t, "tray_type").s ELSE NoText,
     traySubBrands |-> IF Field(t, "tray_sub_brands").t = "string" THEN Field(t, "tray_sub_brands").s ELSE NoText,
     trayColor |-> IF Field(t, "tray_color").t = "string" THEN Field(t, "tray_color").s ELSE NoText,
     trayInfoIdx |-> IF Field(t, "tray_info_idx").t = "string" THEN Field(t, "tray_info_idx").s ELSE NoText,
     remain |-> IF Field(t, "remain").t = "number" THEN Field(t, "remain").n ELSE -1,
     isEmpty |-> DOMAIN t.fields \ {"id", "state"} = {}]

\* typeof x.id === "string" ? parseInt(x.id, 10) : -1
IdOf(x) ==
    IF Field(x, "id").t = "string" THEN parseInt(Field(x, "id").s) ELSE [nan |-> FALSE, n |-> -1]

\* the trays the loops over ams.ams and unit.tray push, in order
RECURSIVE ParseUnitTrays(_, _)
ParseUnitTrays(unitId, unitTrays) ==
    IF unitTrays = <<>> THEN <<>>
    ELSE LET t == Head(unitTrays)
             slotId == IdOf(t)
         IN (IF slotId.nan \/ slotId.n < 0 THEN <<>>
             ELSE <<AmsTrayInfo(unitId * 4 + slotId.n, t)>>)
            \o ParseUnitTrays(unitId, Tail(unitTrays))

RECURSIVE ParseAmsUnits(_)
ParseAmsUnits(amsUnits) ==
    IF amsUnits = <<>> THEN <<>>
    ELSE LET unit == Head(amsUnits)
             unitId == IdOf(unit)
         IN (IF unitId.nan \/ unitId.n < 0 \/ unit.tray.t # "array" THEN <<>>
             ELSE ParseUnitTrays(unitId.n, unit.tray.a))
            \o ParseAmsUnits(Tail(amsUnits))

\* as Find, but taking trayId for the position in the array
Find_byPosition(trays, trayId) ==
    IF trayId + 1 \in 1..Len(trays) THEN Some(trays[trayId + 1]) ELSE None

\* Array.prototype.find
Find(trays, trayId) ==
    LET hits == SelectSeq(trays, LAMBDA t : t.trayId = trayId)
    IN IF hits = <<>> THEN None ELSE Some(Head(hits))

mergeReportIntoStatus(status, report) ==
    LET number(key, old) ==
            IF Field(report, key).t = "number" THEN Some(Field(report, key).n) ELSE old
        gcode_state == Field(report, "gcode_state")
        subtask_name == Field(report, "subtask_name")
        scalars ==
            [status EXCEPT
                !.gcodeState = IF gcode_state.t = "string" THEN gcode_state.s ELSE @,
                !.nozzleTemp = number("nozzle_temper", @),
                !.targetNozzleTemp = number("nozzle_target_temper", @),
                !.bedTemp = number("bed_temper", @),
                !.targetBedTemp = number("bed_target_temper", @),
                !.chamberTemp = number("chamber_temper", @),
                !.progress = number("mc_percent", @),
                !.remainingTimeMinutes = number("mc_remaining_time", @),
                !.fileName = IF subtask_name.t = "string"
                             THEN (IF subtask_name.s = NoText THEN None
                                   ELSE Some(subtask_name.s))
                             ELSE @,
                !.layerNum = number("layer_num", @),
                !.totalLayerNum = number("total_layer_num", @),
                !.lastUpdated = 1]
        ams == report.ams
        vtTray == report.vt_tray
        vtType == IF vtTray.t = "object" /\ Field(vtTray.o, "tray_type").t = "string"
                  THEN Field(vtTray.o, "tray_type").s ELSE NoText
    IN IF ams.t = "object"
       THEN LET trays == ParseAmsUnits(ams.o.ams.a)
                         \o (IF vtTray.t = "object" THEN <<AmsTrayInfo(254, vtTray.o)>>
                             ELSE <<>>)
                parsed == IF ams.o.ams.t = "array" THEN [scalars EXCEPT !.amsTrays = trays]
                          ELSE scalars
                tray_now == Field(ams.o, "tray_now")
                trayNow == IF tray_now.t = "string" THEN Some(tray_now.s) ELSE None
            IN IF trayNow \in {Some(<<"2", "5", "4">>), Some(<<"2", "5", "5">>)}
               THEN IF vtType # NoText THEN [parsed EXCEPT !.filamentType = Some(vtType)]
                    ELSE parsed
               ELSE IF trayNow # None /\ trayNow # Some(NoText)
               THEN LET trayIndex == parseInt(trayNow[1])
                        activeTray == IF trayIndex.nan THEN None
                                      ELSE Find(parsed.amsTrays, trayIndex.n)
                    IN IF activeTray # None /\ activeTray[1].trayType # NoText
                       THEN [parsed EXCEPT !.filamentType = Some(activeTray[1].trayType)]
                       ELSE parsed
               ELSE parsed
       ELSE IF vtTray.t = "object" /\ vtType # NoText
       THEN [scalars EXCEPT !.filamentType = Some(vtType)]
       ELSE scalars

\* a report that carries gcode_state only
GcodeReport(gcodeState) == [NoReport EXCEPT !.fields = Put(@, "gcode_state", Str(gcodeState))]

\* ------------------------------------------------------------------------
\* bambu.ts: status monitor.  A monitor state ms is
\* [clients, cache, timers, idleFor].  Time passes in steps of Tick
\* milliseconds; a timeout is due BAMBU_MONITOR_IDLE_MS after its setTimeout.
\* ------------------------------------------------------------------------
BAMBU_MONITOR_IDLE_MS == 300000

Tick == BAMBU_MONITOR_IDLE_MS \div TicksPerIdle

Later(ms) == IF ms + Tick >= BAMBU_MONITOR_IDLE_MS THEN BAMBU_MONITOR_IDLE_MS ELSE ms + Tick

MonitorState ==
    [clients |-> clients, cache |-> monitorCache, timers |-> timers, idleFor |-> idleFor]

BambuMonitorEntry(c) == [client |-> c, connecting |-> TRUE, status |-> createEmptyStatus]

cleanupMonitor(ms, serialNumber) ==
    IF serialNumber \notin DOMAIN ms.cache THEN ms
    ELSE LET entry == ms.cache[serialNumber] IN
         [clients |-> [c \in DOMAIN ms.clients |->
                          IF c = entry.client THEN [ms.clients[c] EXCEPT !.ended = TRUE]
                          ELSE ms.clients[c]],
          cache |-> Drop(ms.cache, serialNumber),
          timers |-> Drop(ms.timers, <<entry.client, serialNumber>>),
          idleFor |-> ms.idleFor]

resetIdleTimeout(ms, serialNumber) ==
    IF serialNumber \notin DOMAIN ms.cache THEN ms
    ELSE [ms EXCEPT !.timers = Put(@, <<ms.cache[serialNumber].client, serialNumber>>, 0)]

\* the caller has validated the inputs (validateBambuInputs is called again
\* at the top of connectBambuMonitor with the same arguments)
connectBambuMonitor(ms, ipAddress, accessCode, serialNumber) ==
    IF validateBambuInputs(ipAddress, accessCode, serialNumber, Undefined) # NoError THEN ms
    ELSE IF serialNumber \in DOMAIN ms.cache THEN ms
    ELSE LET c == Fresh(DOMAIN ms.clients) IN
         [clients |-> Put(ms.clients, c,
                          MqttClient("monitor", [serialNumber |-> serialNumber,
                                                 ipAddress |-> ipAddress,
                                                 authToken |-> accessCode])),
          cache |-> Put(ms.cache, serialNumber, BambuMonitorEntry(c)),
          timers |-> Put(ms.timers, <<c, serialNumber>>, 0),
          idleFor |-> ms.idleFor]

\* variant: the status is returned before any report was merged
getBambuStatus_unreported(called, ipAddress, accessCode, serialNumber) ==
    LET ms == [called EXCEPT !.idleFor = Put(@, serialNumber, 0)]
        invalid == validateBambuInputs(ipAddress, accessCode, serialNumber, Undefined) IN
    IF invalid # NoError THEN [ms |-> ms, threw |-> invalid, status |-> Undefined]
    ELSE IF serialNumber \notin DOMAIN ms.cache
    THEN [ms |-> connectBambuMonitor(ms, ipAddress, accessCode, serialNumber),
          threw |-> NoError, status |-> Undefined]
    ELSE LET existing == ms.cache[serialNumber] IN
         [ms |-> resetIdleTimeout(ms, serialNumber),
          threw |-> NoError,
          status |-> IF existing.connecting
                     THEN Undefined ELSE existing.status.gcodeState]

\* [ms, threw, status]: status is Undefined for null
getBambuStatus(called, ipAddress, accessCode, serialNumber) ==
    LET ms == [called EXCEPT !.idleFor = Put(@, serialNumber, 0)]
        invalid == validateBambuInputs(ipAddress, accessCode, serialNumber, Undefined) IN
    IF invalid # NoError THEN [ms |-> ms, threw |-> invalid, status |-> Undefined]
    ELSE IF serialNumber \notin DOMAIN ms.cache
    THEN [ms |-> connectBambuMonitor(ms, ipAddress, accessCode, serialNumber),
          threw |-> NoError, status |-> Undefined]
    ELSE LET existing == ms.cache[serialNumber] IN
         [ms |-> resetIdleTimeout(ms, serialNumber),
          threw |-> NoError,
          status |-> IF existing.connecting \/ existing.status.lastUpdated = 0
                     THEN Undefined ELSE existing.status.gcodeState]

ApplyMonitorState(ms) ==
    /\ DOMAIN ms.clients \subseteq ClientIds
    /\ clients' = ms.clients
    /\ monitorCache' = ms.cache
    /\ timers' = ms.timers
    /\ idleFor' = ms.idleFor

\* print.ts getPrinterStatus for the printer stored at row i
getPrinterStatus(i) ==
    /\ i \in 1..Len(printers)
    /\ LET printer == printers[i] IN
       IF printer.type = "BAMBU" /\ printer.authToken # NoText /\ printer.serialNumber # NoText
       THEN ApplyMonitorState(getBambuStatus(MonitorState, printer.ipAddress,
                                             printer.authToken, printer.serialNumber).ms)
       ELSE UNCHANGED <<connVars, monVars>>
    /\ UNCHANGED <<rosterVars, extVars, poolVars, topics, printVars>>

\* ------------------------------------------------------------------------
\* Events of a monitor client (handlers registered by connectBambuMonitor)
\* ------------------------------------------------------------------------
MonitorClientIds == {c \in DOMAIN clients : clients[c].kind = "monitor"}

GcodeStates ==
    {<<"I", "D", "L", "E">>, <<"R", "U", "N", "N", "I", "N", "G">>, <<"p", "a", "u", "s", "e">>}

\* the entry object the handlers of client c close over, while it is cached
EntryOf(c) == {s \in DOMAIN monitorCache : monitorCache[s].client = c}

\* client.on("connect"): entry.connecting = false, subscribe, then pushall
MonitorClientConnect(c) ==
    /\ c \in MonitorClientIds
    /\ ~clients[c].ended
    /\ ~clients[c].connected
    /\ clients' = [clients EXCEPT ![c].connected = TRUE]
    /\ monitorCache' = [s \in DOMAIN monitorCache |->
                          IF s \in EntryOf(c) THEN [monitorCache[s] EXCEPT !.connecting = FALSE]
                          ELSE monitorCache[s]]
    /\ topics' = topics \cup {clients[c].serialNumber}
    /\ UNCHANGED <<rosterVars, extVars, poolVars, timers, idleFor, printVars>>

\* client.on("message") with a report that carries gcode_state
MonitorClientMessage(c, gcodeState) ==
    /\ c \in MonitorClientIds
    /\ ~clients[c].ended
    /\ clients[c].connected
    /\ EntryOf(c) # {}
    /\ monitorCache' = [s \in DOMAIN monitorCache |->
                          IF s \in EntryOf(c)
                          THEN [monitorCache[s] EXCEPT !.status =
                                   mergeReportIntoStatus(@, GcodeReport(gcodeState))]
                          ELSE monitorCache[s]]
    /\ UNCHANGED <<rosterVars, extVars, connVars, poolVars, timers, idleFor, topics, printVars>>

\* client.on("error"): cleanupMonitor(serialNumber)
MonitorClientError(c) ==
    /\ c \in MonitorClientIds
    /\ ~clients[c].ended
    /\ ApplyMonitorState(cleanupMonitor(MonitorState, clients[c].serialNumber))
    /\ UNCHANGED <<rosterVars, extVars, poolVars, topics, printVars>>

\* client.on("close"): monitorCache.delete(serialNumber).  A client that was
\* ended is gone after its close event; any other client reconnects by itself.
MonitorClientClose(c) ==
    /\ c \in MonitorClientIds
    /\ clients' = IF clients[c].ended THEN Drop(clients, c)
                  ELSE [clients EXCEPT ![c].connected = FALSE]
    /\ monitorCache' = Drop(monitorCache, clients[c].serialNumber)
    /\ UNCHANGED <<rosterVars, extVars, poolVars, timers, idleFor, topics, printVars>>

\* an idle timeout is due and fires: cleanupMonitor(serialNumber)
MonitorIdleTimeout(t) ==
    /\ t \in DOMAIN timers
    /\ timers[t] >= BAMBU_MONITOR_IDLE_MS
    /\ ApplyMonitorState([cleanupMonitor(MonitorState, t[2]) EXCEPT !.timers = Drop(@, t)])
    /\ UNCHANGED <<rosterVars, extVars, poolVars, topics, printVars>>

\* Tick milliseconds pass; a timeout that is due fires before more time passes
TimePasses ==
    /\ \A t \in DOMAIN timers : timers[t] < BAMBU_MONITOR_IDLE_MS
    /\ timers' = [t \in DOMAIN timers |-> Later(timers[t])]
    /\ idleFor' = [s \in DOMAIN idleFor |-> Later(idleFor[s])]
    /\ UNCHANGED <<rosterVars, extVars, connVars, poolVars, topics, monitorCache, printVars>>

\* ------------------------------------------------------------------------
\* print.utils.ts and the text helpers of print.ts
\* ------------------------------------------------------------------------
\* variant: the replaced text is not cut
sanitizeFilename_uncut(name) ==
    [i \in 1..Len(name) |-> IF name[i] \in AlphaNum \cup {".", "_", "-"} THEN name[i] ELSE "_"]

sanitizeFilename(name) ==
    LET replaced == [i \in 1..Len(name) |->
                        IF name[i] \in AlphaNum \cup {".", "_", "-"} THEN name[i] ELSE "_"]
    IN SubSeq(replaced, 1, Min(Len(replaced), 120))

ALLOWED_GCODE_EXTENSIONS == {<<".", "g", "c", "o", "d", "e">>, <<".", "g", "c", "o">>, <<".", "g", "c">>, <<".", "b", "g", "c", "o", "d", "e">>}

hasAllowedGcodeExtension(name) ==
    \E ext \in ALLOWED_GCODE_EXTENSIONS : endsWith(toLowerCase(name), ext)

\* the message of the Error thrown, NoError when the payload is accepted
\* (file buffers are non-empty and below the size limits)
validateUploadPayloadForPrinter(printerType, fileName) ==
    IF trim(fileName) = NoText THEN Lit("File name is required.")
    ELSE IF printerType = "PRUSA"
    THEN IF hasAllowedGcodeExtension(fileName) THEN NoError
         ELSE Lit("Only .gcode, .gco, .gc, and .bgcode files are supported.")
    ELSE IF endsWith(toLowerCase(fileName), <<".", "3", "m", "f">>) THEN NoError
         ELSE Lit("Bambu printers currently support .3mf uploads only.")

maxLength == 4000

\* variant: the text is cut before the null bytes are removed
sanitizeDbText_cutFirst(value) ==
    SelectSeq(SubSeq(value, 1, Min(Len(value), maxLength)), LAMBDA ch : ch # NUL)

sanitizeDbText(value) ==
    LET replaced == SelectSeq(value, LAMBDA ch : ch # NUL)
    IN SubSeq(replaced, 1, Min(Len(replaced), maxLength))

RECURSIVE join(_, _)
join(parts, separator) ==
    IF parts = <<>> THEN <<>>
    ELSE IF Len(parts) = 1 THEN parts[1]
    ELSE parts[1] \o separator \o join(Tail(parts), separator)

\* ------------------------------------------------------------------------
\* What a Prusa printer may answer
\* ------------------------------------------------------------------------
LongText == <<NUL>> \o Rep("x", maxLength + 1)
ShortText == <<"e", NUL, "r">>
DeviceTexts == {NoText, ShortText}
NetworkMessage == Lit("fetch failed")

StorageNames == {Undefined, <<" ", "u", "s", "b", " ">>, <<"s", "d">>}
PrinterStates ==
    {Undefined, <<"I", "D", "L", "E">>, <<"P", "R", "I", "N", "T", "I", "N", "G">>, <<"p", "r", "i", "n", "t", "i", "n", "g">>, <<" ", "P", "a", "u", "s", "e", "d", " ">>, <<"B", "U", "S", "Y">>, <<"A", "t", "t", "e", "n", "t", "i", "o", "n">>}

\* GET /api/v1/status: a failed request (network error or a status that is
\* not 2xx), or the decoded JSON body
StatusAnswers ==
    {[ok |-> FALSE, storage |-> Undefined, readOnly |-> FALSE, state |-> Undefined]}
    \cup [ok : {TRUE}, storage : StorageNames, readOnly : BOOLEAN, state : PrinterStates]

HttpStatuses == {200, 201, 204, 302, 400, 401, 403, 404, 405, 408, 409, 410, 415, 422, 500, 503}

\* the answer to an upload or start request: status 0 stands for a fetch that
\* rejects; text is the response body, or the message of the network error
HttpAnswers ==
    [status : HttpStatuses, text : DeviceTexts] \cup {[status |-> 0, text |-> NetworkMessage]}

\* the texts a failing answer may carry, by name
FailureTexts == <<NoText, ShortText, NetworkMessage>>

ok(status) == status \in 200..299

\* the answers to a status poll after the start
PollAnswers ==
    {a \in StatusAnswers :
        a.storage = Undefined /\ ~a.readOnly
            /\ a.state \in {Undefined, <<"p", "r", "i", "n", "t", "i", "n", "g">>, <<" ", "P", "a", "u", "s", "e", "d", " ">>}}

\* ------------------------------------------------------------------------
\* dispatchToPrinter (print.ts 79-440) as a suspended call.  pc names the
\* await the call is suspended at; "returned" and "threw" are its two ends.
\* ------------------------------------------------------------------------
NoPrinter == Row("NONE", "", NoText, NoText)

NoDispatch ==
    [pc |-> "idle", mode |-> "none", printer |-> NoPrinter, originalFilename |-> NoText,
     hasFile |-> FALSE, prusaStorageName |-> NoText, initialPrinterState |-> NoText,
     resolvedStorageForStart |-> NoText, candidate |-> 0,
     attemptErrors |-> 0, failureText |-> 0, attempt |-> 0,
     poll |-> 0, postStartState |-> NoText, pollFailed |-> FALSE, sent |-> {},
     error |-> [code |-> "none", message |-> NoText], details |-> NoText]

NewDispatch(mode, printer, fileName) ==
    [NoDispatch EXCEPT !.pc = "begin", !.mode = mode, !.printer = printer,
                       !.originalFilename = fileName, !.hasFile = TRUE,
                       !.prusaStorageName = <<"l", "o", "c", "a", "l">>,
                       !.initialPrinterState = <<"U", "N", "K", "N", "O", "W", "N">>,
                       !.resolvedStorageForStart = <<"l", "o", "c", "a", "l">>,
                       !.postStartState = <<"U", "N", "K", "N", "O", "W", "N">>]

Throw(d, code, message) ==
    [d EXCEPT !.pc = "threw", !.error = [code |-> code, message |-> message]]

Return(d, details) == [d EXCEPT !.pc = "returned", !.details = details]

\* Array.from(new Set([prusaStorageName, "local", "usb"].filter(Boolean)))
storageCandidates(prusaStorageName) ==
    LET raw == SelectSeq(<<prusaStorageName, <<"l", "o", "c", "a", "l">>, <<"u", "s", "b">>>>, LAMBDA x : x # NoText)
        first == {i \in 1..Len(raw) : \A j \in 1..(i - 1) : raw[j] # raw[i]}
        pick[i \in 0..Len(raw)] ==
            IF i = 0 THEN <<>>
            ELSE IF i \in first THEN Append(pick[i - 1], raw[i]) ELSE pick[i - 1]
    IN pick[Len(raw)]

uploadEndpointCandidates(prusaStorageName) ==
    LET storages == storageCandidates(prusaStorageName) IN
    [k \in 1..(4 * Len(storages)) |->
        [storage |-> storages[((k - 1) \div 4) + 1],
         method |-> IF (k - 1) % 2 = 0 THEN "PUT" ELSE "POST",
         api |-> IF (k - 1) % 4 < 2 THEN "v1" ELSE "legacy"]]

\* print.ts 193-218: the names of the headers an upload request carries; a
\* POST sends the file as a form, a PUT sends it raw
uploadHeaders(mode, method) ==
    {"X-Api-Key"}
        \cup (IF method = "POST" THEN {}
              ELSE {"Accept", "Content-Type", "Content-Length", "Overwrite"}
                       \cup (IF mode = "upload_and_start" THEN {"Print-After-Upload"} ELSE {}))

\* variant: the state is compared without folding its case
isBlockedState_caseSensitive(state) ==
    state \in {<<"P", "R", "I", "N", "T", "I", "N", "G">>, <<"P", "A", "U", "S", "E", "D">>, <<"B", "U", "S", "Y">>, <<"A", "T", "T", "E", "N", "T", "I", "O", "N">>}

\* blockedStates.has(initialPrinterState.toUpperCase())
isBlockedState(state) ==
    toUpperCase(state) \in {<<"P", "R", "I", "N", "T", "I", "N", "G">>, <<"P", "A", "U", "S", "E", "D">>, <<"B", "U", "S", "Y">>, <<"A", "T", "T", "E", "N", "T", "I", "O", "N">>}

\* variant: the PUT-only statuses advance for every method
shouldContinueProbe_anyMethod(method, status) ==
    \/ status \in {404, 410}
    \/ status \in {403}
    \/ status \in {405, 408, 415, 422} \/ status >= 500

shouldContinueProbe(method, status) ==
    \/ status \in {404, 410}
    \/ status \in {403}
    \/ method = "PUT" /\ (status \in {405, 408, 415, 422} \/ status >= 500)

\* one entry of uploadAttemptErrors / startErrors
attemptError(status, text) ==
    IF status = 0 THEN Lit("NETWORK attempt: ") \o sanitizeDbText(text)
    ELSE Lit("attempt: ") \o sanitizeDbText(IF text = NoText THEN Lit("<empty>") ELSE text)

\* the entries pushed so far: within one phase of a dispatch every failing
\* request fails with the same text, FailureTexts[d.failureText]
attemptErrorList(d) ==
    [i \in 1..d.attemptErrors |->
        attemptError(IF FailureTexts[d.failureText] = NetworkMessage THEN 0 ELSE 1,
                     FailureTexts[d.failureText])]

pushError(d, answer) ==
    [d EXCEPT !.attemptErrors = @ + 1, !.failureText = IndexOf(FailureTexts, answer.text)]

\* the start attempts begin; the locals of the upload loop are out of scope
startPhase(d) ==
    [d EXCEPT !.pc = "start", !.attempt = 1, !.candidate = 0, !.attemptErrors = 0,
              !.failureText = 0, !.prusaStorageName = NoText, !.sent = @ \cup {"start"}]

\* print.ts 282-326: the requests of the start phase, in the order they are
\* tried; the first two name the storage in their endpoint, the last two in
\* the path of their body (filePathOnPrinter)
startAttempts(resolvedStorageForStart) ==
    <<[api |-> "v1", endpoint |-> Lit("/api/v1/files/") \o resolvedStorageForStart, body |-> Undefined],
      [api |-> "legacy", endpoint |-> Lit("/api/files/") \o resolvedStorageForStart, body |-> Undefined],
      [api |-> "v1", endpoint |-> Lit("/api/v1/job"), body |-> Lit("/") \o resolvedStorageForStart],
      [api |-> "legacy", endpoint |-> Lit("/api/job"), body |-> Lit("/") \o resolvedStorageForStart]>>

\* variant: the start phase keeps the storage the status probe reported
afterUpload_probedStorage(d) ==
    LET d1 == [d EXCEPT !.resolvedStorageForStart = d.prusaStorageName] IN
    IF d1.mode = "upload_only"
    THEN Return(d1, Lit("Uploaded file to Prusa printer storage without starting print."))
    ELSE startPhase(d1)

\* variant: the start phase follows the upload in every mode
afterUpload_alwaysStart(d) == startPhase(d)

afterUpload(d) ==
    IF d.mode = "upload_only"
    THEN Return(d, Lit("Uploaded file to Prusa printer storage without starting print."))
    ELSE startPhase(d)

\* print.ts 102-108: up to the first await
prusaBegin(d) ==
    IF d.printer.authToken = NoText
    THEN Throw(d, "BAD_REQUEST", Lit("Prusa printer requires auth token/API key."))
    ELSE [d EXCEPT !.pc = "probe"]

\* print.ts 131-192: the status probe returned; up to the first upload request
prusaProbed(d, answer) ==
    LET storageName == IF answer.ok /\ answer.storage # Undefined
                       THEN trim(answer.storage) ELSE Undefined
        state == IF answer.ok /\ answer.state # Undefined
                 THEN trim(answer.state) ELSE <<"U", "N", "K", "N", "O", "W", "N">>
        storage == IF answer.ok /\ ~answer.readOnly /\ storageName # Undefined
                        /\ storageName # NoText
                   THEN storageName ELSE <<"l", "o", "c", "a", "l">>
        d1 == [d EXCEPT !.prusaStorageName = storage, !.initialPrinterState = state,
                        !.resolvedStorageForStart = storage]
    IN IF isBlockedState(state)
       THEN Throw(d1, "BAD_REQUEST",
                  Lit("Printer is not ready to start a new job (state=") \o state \o Lit(")."))
       ELSE IF d1.mode # "start_only"
       THEN IF ~d1.hasFile
            THEN Throw(d1, "BAD_REQUEST", Lit("No file content provided for printer upload."))
            ELSE [d1 EXCEPT !.pc = "upload", !.candidate = 1, !.sent = @ \cup {"upload"}]
       ELSE startPhase(d1)

\* print.ts 221-272: the answer to the upload request of the current candidate
prusaUploaded(d, answer) ==
    LET candidates == uploadEndpointCandidates(d.prusaStorageName)
        candidate == candidates[d.candidate]
        failed == pushError(d, answer)
        next == IF d.candidate < Len(candidates)
                THEN [failed EXCEPT !.candidate = @ + 1]
                ELSE Throw(failed, "BAD_REQUEST",
                           Lit("Prusa upload failed: no compatible upload endpoint found. Tried ")
                               \o join(attemptErrorList(failed), Lit(" | ")))
    IN IF answer.status = 0 THEN next
       ELSE IF ok(answer.status) \/ answer.status = 409
       THEN afterUpload([d EXCEPT !.resolvedStorageForStart = candidate.storage])
       ELSE IF shouldContinueProbe(candidate.method, answer.status) THEN next
       ELSE Throw(failed, "BAD_REQUEST",
                  Lit("Prusa upload failed: ") \o sanitizeDbText(answer.text))

\* variant: a start attempt answered 403 is followed by the next one
prusaStarted_probeOn403(d, answer) ==
    LET failed == pushError(d, answer)
    IN IF answer.status = 0 THEN Throw(d, "Error", answer.text)
       ELSE IF ok(answer.status)
       THEN [d EXCEPT !.pc = "poll", !.poll = 1, !.attempt = 0, !.attemptErrors = 0,
                      !.failureText = 0, !.resolvedStorageForStart = NoText]
       ELSE IF answer.status \notin {403, 404, 410}
       THEN Throw(failed, "BAD_REQUEST", Lit("Prusa start failed: ") \o sanitizeDbText(answer.text))
       ELSE IF d.attempt < Len(startAttempts(d.resolvedStorageForStart))
       THEN [failed EXCEPT !.attempt = @ + 1]
       ELSE Throw(failed, "BAD_REQUEST",
                  Lit("Prusa start failed: no compatible start endpoint found. Tried ")
                      \o join(attemptErrorList(failed), Lit(" | ")))

\* print.ts 328-355: the answer to the current start attempt
prusaStarted(d, answer) ==
    LET failed == pushError(d, answer)
    IN IF answer.status = 0 THEN Throw(d, "Error", answer.text)
       ELSE IF ok(answer.status)
       THEN [d EXCEPT !.pc = "poll", !.poll = 1, !.attempt = 0, !.attemptErrors = 0,
                      !.failureText = 0, !.resolvedStorageForStart = NoText]
       ELSE IF answer.status \notin {404, 410}
       THEN Throw(failed, "BAD_REQUEST", Lit("Prusa start failed: ") \o sanitizeDbText(answer.text))
       ELSE IF d.attempt < Len(startAttempts(d.resolvedStorageForStart))
       THEN [failed EXCEPT !.attempt = @ + 1]
       ELSE Throw(failed, "BAD_REQUEST",
                  Lit("Prusa start failed: no compatible start endpoint found. Tried ")
                      \o join(attemptErrorList(failed), Lit(" | ")))

\* variant: the loop runs while i < 5
prusaPolled_fivePolls(d, answer) ==
    LET started == IF d.mode = "start_only" THEN Lit("Start command sent to Prusa printer.")
                   ELSE Lit("Uploaded and start command sent to Prusa printer.")
        state == IF answer.state # Undefined THEN trim(answer.state) ELSE <<"U", "N", "K", "N", "O", "W", "N">>
    IN IF ~answer.ok THEN Return([d EXCEPT !.pollFailed = TRUE], started)
       ELSE IF toUpperCase(state) \in {<<"P", "R", "I", "N", "T", "I", "N", "G">>, <<"P", "A", "U", "S", "E", "D">>}
       THEN Return([d EXCEPT !.postStartState = state], started)
       ELSE IF d.poll < 5 THEN [d EXCEPT !.postStartState = state, !.poll = @ + 1]
       ELSE Return([d EXCEPT !.postStartState = state], started)

\* print.ts 356-377: the answer to a status poll after the start; pollFailed
\* is the catch block that logs "Post-start status poll failed:"
prusaPolled(d, answer) ==
    LET started == IF d.mode = "start_only" THEN Lit("Start command sent to Prusa printer.")
                   ELSE Lit("Uploaded and start command sent to Prusa printer.")
        state == IF answer.state # Undefined THEN trim(answer.state) ELSE <<"U", "N", "K", "N", "O", "W", "N">>
    IN IF ~answer.ok THEN Return([d EXCEPT !.pollFailed = TRUE], started)
       ELSE IF toUpperCase(state) \in {<<"P", "R", "I", "N", "T", "I", "N", "G">>, <<"P", "A", "U", "S", "E", "D">>}
       THEN Return([d EXCEPT !.postStartState = state], started)
       ELSE IF d.poll < 4 THEN [d EXCEPT !.postStartState = state, !.poll = @ + 1]
       ELSE Return([d EXCEPT !.postStartState = state], started)

\* ------------------------------------------------------------------------
\* dispatchToPrinter, Bambu branch (print.ts 380-439) and dispatchToBambu
\* (bambu.ts 269-334) up to its first await.  The result is
\* [d, ms, bd]: the dispatch, the monitor state and the Bambu call.
\* ------------------------------------------------------------------------
NoBambu == [pc |-> "idle", client |-> 0, effects |-> {}]

\* variant: the state is compared without folding its case
isBlockedBambuState_caseSensitive(gcodeState) ==
    gcodeState \in {<<"R", "U", "N", "N", "I", "N", "G">>, <<"P", "A", "U", "S", "E">>, <<"P", "R", "E", "P", "A", "R", "E">>}

isBlockedBambuState(gcodeState) ==
    toUpperCase(gcodeState) \in {<<"R", "U", "N", "N", "I", "N", "G">>, <<"P", "A", "U", "S", "E">>, <<"P", "R", "E", "P", "A", "R", "E">>}

\* dispatchToBambu down to `await writeFile(tmpPath, fileBuffer)`
dispatchToBambuBegin(d, ms) ==
    LET printer == d.printer
        invalid == validateBambuInputs(printer.ipAddress, printer.authToken,
                                       printer.serialNumber, d.originalFilename)
    IN IF invalid # NoError
       THEN [d |-> Throw(d, "Error", invalid), ms |-> ms, bd |-> NoBambu]
       ELSE IF printer.serialNumber = NoText
       THEN [d |-> Throw(d, "BAD_REQUEST",
                         Lit("Bambu dispatch failed: ")
                             \o Lit("Bambu printer requires a serial number for MQTT dispatch.")),
             ms |-> ms, bd |-> NoBambu]
       ELSE IF BAMBU_BRIDGE_MOCK_SUCCESS = "1"
       THEN [d |-> Return(d, Lit("File accepted (mock mode). Printer dispatch is not implemented yet.")),
             ms |-> ms, bd |-> NoBambu]
       ELSE [d |-> [d EXCEPT !.pc = "bambu"], ms |-> ms,
             bd |-> [NoBambu EXCEPT !.pc = "writeFile"]]

bambuBegin(d, ms) ==
    LET printer == d.printer
        checked == printer.serialNumber # NoText /\ printer.authToken # NoText
        status == getBambuStatus(ms, printer.ipAddress, printer.authToken, printer.serialNumber)
        ms1 == IF checked THEN status.ms ELSE ms
    IN IF d.mode # "upload_and_start"
       THEN [d |-> Throw(d, "BAD_REQUEST",
                         Lit("Separate upload/start flow is not supported for Bambu printers.")),
             ms |-> ms, bd |-> NoBambu]
       ELSE IF checked /\ status.threw # NoError
       THEN [d |-> Throw(d, "Error", status.threw), ms |-> ms, bd |-> NoBambu]
       ELSE IF checked /\ status.status # Undefined /\ isBlockedBambuState(status.status)
       THEN [d |-> Throw(d, "BAD_REQUEST",
                         Lit("Bambu printer is not ready to start a new job (state=")
                             \o toUpperCase(status.status) \o Lit(").")),
             ms |-> ms1, bd |-> NoBambu]
       ELSE IF ~d.hasFile
       THEN [d |-> Throw(d, "BAD_REQUEST", Lit("No file content provided for Bambu dispatch.")),
             ms |-> ms1, bd |-> NoBambu]
       ELSE IF printer.authToken = NoText
       THEN [d |-> Throw(d, "BAD_REQUEST", Lit("Missing authToken (Bambu access code).")),
             ms |-> ms1, bd |-> NoBambu]
       ELSE dispatchToBambuBegin(d, ms1)

\* dispatchToPrinter from its call to its first await
dispatchToPrinter(mode, printer, fileName) ==
    LET d == NewDispatch(mode, printer, fileName) IN
    IF printer.type = "PRUSA"
    THEN [d |-> prusaBegin(d), ms |-> MonitorState, bd |-> NoBambu]
    ELSE bambuBegin(d, MonitorState)

\* dispatchToBambu returned { ok: false, details }; dispatchToPrinter throws
bambuFailed(d, details) ==
    Throw(d, "BAD_REQUEST", Lit("Bambu dispatch failed: ") \o details)

bambuSucceeded(d) ==
    Return(d, Lit("File uploaded via FTPS and print started via MQTT."))

\* ------------------------------------------------------------------------
\* Steps of a suspended Prusa dispatch: the printer answers the request the
\* dispatch waits for
\* ------------------------------------------------------------------------
PrusaStatusProbe(answer) ==
    /\ dp.pc = "probe"
    /\ dp' = prusaProbed(dp, answer)
    /\ UNCHANGED <<rosterVars, extVars, connVars, poolVars, topics, monVars, jobs, rc, bd, outcome>>

\* a failing answer carries the text this device fails with
SameFailureText(answer) ==
    IF ok(answer.status) \/ answer.status = 409 THEN answer.text = NoText
    ELSE IF dp.failureText = 0 THEN TRUE ELSE FailureTexts[dp.failureText] = answer.text

PrusaUploadAnswer(answer) ==
    /\ dp.pc = "upload"
    /\ SameFailureText(answer)
    /\ dp' = prusaUploaded(dp, answer)
    /\ UNCHANGED <<rosterVars, extVars, connVars, poolVars, topics, monVars, jobs, rc, bd, outcome>>

PrusaStartAnswer(answer) ==
    /\ dp.pc = "start"
    /\ SameFailureText(answer)
    /\ answer.status # 409
    /\ dp' = prusaStarted(dp, answer)
    /\ UNCHANGED <<rosterVars, extVars, connVars, poolVars, topics, monVars, jobs, rc, bd, outcome>>

PrusaStatusPoll(answer) ==
    /\ dp.pc = "poll"
    /\ dp' = prusaPolled(dp, answer)
    /\ UNCHANGED <<rosterVars, extVars, connVars, poolVars, topics, monVars, jobs, rc, bd, outcome>>

\* ------------------------------------------------------------------------
\* Steps of a suspended dispatchToBambu: uploadViaFtps, then sendPrintCommand
\* ------------------------------------------------------------------------
DispatchClient(printer) == MqttClient("dispatch", printer)

\* writeFile(tmpPath) settles; on success curl is spawned
BambuTempFile(written) ==
    /\ bd.pc = "writeFile"
    /\ IF written
       THEN /\ bd' = [bd EXCEPT !.pc = "curl", !.effects = @ \cup {"tmpfile", "curl"}]
            /\ dp' = dp
       ELSE /\ bd' = NoBambu
            /\ dp' = bambuFailed(dp, Lit("ENOSPC: no space left on device, write"))
    /\ UNCHANGED <<rosterVars, extVars, connVars, poolVars, topics, monVars, jobs, rc, outcome>>

\* variant: sendPrintCommand is called whatever the exit code of curl was
BambuCurlExit_anyExitCode(code, stderr) ==
    /\ bd.pc = "curl"
    /\ Fresh(DOMAIN clients) \in ClientIds
    /\ clients' = Put(clients, Fresh(DOMAIN clients), DispatchClient(dp.printer))
    /\ bd' = [bd EXCEPT !.pc = "mqtt", !.client = Fresh(DOMAIN clients),
                        !.effects = @ \cup (IF code = 0 THEN {"uploaded", "mqtt"} ELSE {"mqtt"})]
    /\ dp' = dp
    /\ UNCHANGED <<rosterVars, extVars, poolVars, topics, monVars, jobs, rc, outcome>>

\* curl exits (or fails to start: code -1); on exit 0 sendPrintCommand opens
\* its MQTT connection and arms its timer
BambuCurlExit(code, stderr) ==
    /\ bd.pc = "curl"
    /\ IF code = 0
       THEN /\ stderr = NoText
            /\ Fresh(DOMAIN clients) \in ClientIds
            /\ clients' = Put(clients, Fresh(DOMAIN clients), DispatchClient(dp.printer))
            /\ bd' = [bd EXCEPT !.pc = "mqtt", !.client = Fresh(DOMAIN clients),
                                !.effects = @ \cup {"uploaded", "mqtt"}]
            /\ dp' = dp
       ELSE /\ bd' = NoBambu
            /\ dp' = bambuFailed(dp,
                        IF code < 0 THEN Lit("Failed to start curl: ") \o stderr
                        ELSE Lit("FTPS upload failed (exit): ")
                                 \o (IF trim(stderr) = NoText THEN Lit("unknown error")
                                     ELSE trim(stderr)))
            /\ UNCHANGED connVars
    /\ UNCHANGED <<rosterVars, extVars, poolVars, topics, monVars, jobs, rc, outcome>>

\* client.on("connect") of sendPrintCommand: publish the print command
DispatchClientConnect ==
    /\ bd.pc = "mqtt"
    /\ clients' = [clients EXCEPT ![bd.client].connected = TRUE]
    /\ topics' = topics \cup {clients[bd.client].serialNumber}
    /\ bd' = [bd EXCEPT !.pc = "publish"]
    /\ UNCHANGED <<rosterVars, extVars, poolVars, monVars, jobs, rc, dp, outcome>>

\* the publish callback: clearTimeout, client.end(), resolve or reject
DispatchPublished(failed) ==
    /\ bd.pc = "publish"
    /\ clients' = Drop(clients, bd.client)
    /\ bd' = NoBambu
    /\ dp' = IF failed THEN bambuFailed(dp, Lit("client disconnecting")) ELSE bambuSucceeded(dp)
    /\ UNCHANGED <<rosterVars, extVars, poolVars, topics, monVars, jobs, rc, outcome>>

\* client.on("error"): clearTimeout, client.end(true), reject
DispatchClientError ==
    /\ bd.pc \in {"mqtt", "publish"}
    /\ clients' = Drop(clients, bd.client)
    /\ bd' = NoBambu
    /\ dp' = bambuFailed(dp, Lit("connect ECONNREFUSED"))
    /\ UNCHANGED <<rosterVars, extVars, poolVars, topics, monVars, jobs, rc, outcome>>

\* the 15 s timer fires: client.end(true), reject
DispatchTimeout ==
    /\ bd.pc \in {"mqtt", "publish"}
    /\ clients' = Drop(clients, bd.client)
    /\ bd' = NoBambu
    /\ dp' = bambuFailed(dp, Lit("MQTT connection timed out after 10s."))
    /\ UNCHANGED <<rosterVars, extVars, poolVars, topics, monVars, jobs, rc, outcome>>

\* ------------------------------------------------------------------------
\* Print router (print.ts 907-1396).  The store and the object storage
\* answer every request of a procedure; one procedure runs at a time.
\* ------------------------------------------------------------------------
NoCall == [proc |-> "none", job |-> 0, reused |-> FALSE]

NoOutcome ==
    [proc |-> "none", job |-> 0, dispatched |-> FALSE, result |-> "none", message |-> NoText,
     thrown |-> NoText, dispatchError |-> NoText, dispatchResponse |-> NoText]

Answer(proc, result, message) ==
    [NoOutcome EXCEPT !.proc = proc, !.result = result, !.message = message]

\* prisma.printer.findUnique({ where: { ipAddress } })
FindPrinter(ip) == {printers[i] : i \in {k \in 1..Len(printers) : printers[k].ipAddress = ip}}

GcodePrintJob(printer, file) ==
    [printer |-> printer.ipAddress, file |-> file, status |-> "STORED"]

\* the procedure answers without having created a job
Rejected(proc, result, message) ==
    /\ outcome' = Answer(proc, result, message)
    /\ UNCHANGED <<rosterVars, extVars, connVars, poolVars, topics, monVars, jobs, rc, dp, bd>>

\* the procedure calls dispatchToPrinter for job j and suspends with it
Dispatching(proc, j, reused, mode, printer, fileName) ==
    LET call == dispatchToPrinter(mode, printer, fileName) IN
    /\ rc' = [proc |-> proc, job |-> j, reused |-> reused]
    /\ dp' = call.d
    /\ bd' = call.bd
    /\ ApplyMonitorState(call.ms)
    /\ outcome' = NoOutcome
    /\ UNCHANGED <<rosterVars, extVars, poolVars, topics>>

uploadAndStore(printerIpAddress, fileName) ==
    /\ rc.proc = "none"
    /\ IF FindPrinter(printerIpAddress) = {}
       THEN Rejected("uploadAndStore", "NOT_FOUND",
                     Lit("No configured printer found for that IP address."))
       ELSE LET printer == CHOOSE p \in FindPrinter(printerIpAddress) : TRUE
                invalid == validateUploadPayloadForPrinter(printer.type, fileName)
            IN IF invalid # NoError THEN Rejected("uploadAndStore", "BAD_REQUEST", invalid)
               ELSE /\ Len(jobs) < MaxJobs
                    /\ jobs' = Append(jobs, GcodePrintJob(printer, fileName))
                    /\ Dispatching("uploadAndStore", Len(jobs) + 1, FALSE, "upload_only",
                                   printer, sanitizeFilename(fileName))

startStoredPrint(printJobId, stored) ==
    /\ rc.proc = "none"
    /\ printJobId \in 1..Len(jobs)
    /\ IF ~stored
       THEN Rejected("startStoredPrint", "NOT_FOUND", Lit("S3 file not found: NoSuchKey"))
       ELSE LET printJob == jobs[printJobId]
                printer == CHOOSE p \in FindPrinter(printJob.printer) : TRUE
            IN /\ FindPrinter(printJob.printer) # {}
               /\ jobs' = jobs
               /\ Dispatching("startStoredPrint", printJobId, FALSE, "start_only",
                              printer, sanitizeFilename(printJob.file))

uploadAndPrint(printerIpAddress, fileName) ==
    /\ rc.proc = "none"
    /\ IF FindPrinter(printerIpAddress) = {}
       THEN Rejected("uploadAndPrint", "NOT_FOUND",
                     Lit("No configured printer found for that IP address."))
       ELSE LET printer == CHOOSE p \in FindPrinter(printerIpAddress) : TRUE
                invalid == validateUploadPayloadForPrinter(printer.type, fileName)
                existingJob == {j \in 1..Len(jobs) :
                                   jobs[j].file = fileName /\ jobs[j].printer = printer.ipAddress}
            IN IF invalid # NoError THEN Rejected("uploadAndPrint", "BAD_REQUEST", invalid)
               ELSE /\ Len(jobs) < MaxJobs
                    /\ jobs' = Append(jobs, GcodePrintJob(printer, fileName))
                    /\ Dispatching("uploadAndPrint", Len(jobs) + 1, existingJob # {},
                                   "upload_and_start", printer, sanitizeFilename(fileName))

reprintJob(printJobId, printerIpAddress, stored) ==
    /\ rc.proc = "none"
    /\ printJobId \in 1..Len(jobs)
    /\ IF FindPrinter(printerIpAddress) = {}
       THEN Rejected("reprintJob", "NOT_FOUND",
                     Lit("No configured printer found for that IP address."))
       ELSE IF ~stored
       THEN Rejected("reprintJob", "NOT_FOUND", Lit("S3 file not found: NoSuchKey"))
       ELSE LET originalJob == jobs[printJobId]
                printer == CHOOSE p \in FindPrinter(printerIpAddress) : TRUE
                invalid == validateUploadPayloadForPrinter(printer.type, originalJob.file)
            IN IF invalid # NoError THEN Rejected("reprintJob", "BAD_REQUEST", invalid)
               ELSE /\ Len(jobs) < MaxJobs
                    /\ jobs' = Append(jobs, GcodePrintJob(printer, originalJob.file))
                    /\ Dispatching("reprintJob", Len(jobs) + 1, FALSE, "upload_and_start",
                                   printer, sanitizeFilename(originalJob.file))

FailurePrefix(proc) ==
    IF proc = "uploadAndStore" THEN Lit("Printer upload failed: ")
    ELSE IF proc = "reprintJob" THEN Lit("Reprint failed: ")
    ELSE Lit("Dispatch failed: ")

\* variant: a failed dispatch leaves the status of the job as it was
statusAfterDispatch_keepOnFailure(proc, before, threw) ==
    IF threw THEN before
    ELSE IF proc = "uploadAndStore" THEN "STORED" ELSE "DISPATCHED"

\* the status the procedure writes once dispatchToPrinter has settled
statusAfterDispatch(proc, before, threw) ==
    IF threw THEN "DISPATCH_FAILED"
    ELSE IF proc = "uploadAndStore" THEN "STORED" ELSE "DISPATCHED"

dispatchResponse(proc, reused, details) ==
    IF proc = "reprintJob" THEN Lit("Reprint. ") \o details
    ELSE IF proc = "uploadAndPrint" /\ reused THEN Lit("Re-used existing file. ") \o details
    ELSE details

\* dispatchToPrinter has settled: the procedure updates the job and answers
DispatchSettled ==
    /\ rc.proc # "none"
    /\ dp.pc \in {"returned", "threw"}
    /\ LET threw == dp.pc = "threw"
           message == sanitizeDbText(dp.error.message)
       IN /\ jobs' = [jobs EXCEPT ![rc.job].status =
                         statusAfterDispatch(rc.proc, jobs[rc.job].status, threw)]
          /\ outcome' =
                IF threw
                THEN [proc |-> rc.proc, job |-> rc.job, dispatched |-> TRUE,
                      result |-> "BAD_REQUEST", message |-> FailurePrefix(rc.proc) \o message,
                      thrown |-> dp.error.message, dispatchError |-> message,
                      dispatchResponse |-> NoText]
                ELSE [proc |-> rc.proc, job |-> rc.job, dispatched |-> TRUE,
                      result |-> "ok", message |-> NoText, thrown |-> NoText,
                      dispatchError |-> NoText,
                      dispatchResponse |-> dispatchResponse(rc.proc, rc.reused, dp.details)]
    /\ rc' = NoCall
    /\ dp' = NoDispatch
    /\ UNCHANGED <<rosterVars, extVars, connVars, poolVars, topics, monVars, bd>>


\* ------------------------------------------------------------------------
\* bambu.ts sendPrintCommand (168-223), event by event.  The call creates
\* its own MQTT client (mqtt.connect without reconnectPeriod, so the client
\* reconnects by itself), arms a 15 s timer and registers a connect and an
\* error handler; the publish callback is registered by each publish.
\*   requestTopic  the serial number the request topic is built from
\*   promise  "pending", "resolved" or "rejected"
\*   by       the handler that settled the promise
\*   timer    "armed", "cleared" or "fired"
\*   client   "connecting", "connected", "disconnecting" (end() was called
\*            and the client is finishing) or "ended"
\*   forced   client.end(true) was called
\*   publishes, callbacks   publish calls made / whose callback has run
\*   publishedAfterReject   history: a publish was made on a rejected promise
\* ------------------------------------------------------------------------
NoSend ==
    [requestTopic |-> NoText, promise |-> "none", by |-> "none", timer |-> "none", client |-> "none", forced |-> FALSE,
     publishes |-> 0, callbacks |-> 0, publishedAfterReject |-> FALSE]

\* resolve() / reject(): only the first call settles the promise
settle(s, result, handler) ==
    IF s.promise = "pending" THEN [s EXCEPT !.promise = result, !.by = handler] ELSE s

\* clearTimeout(timeout): no effect on a timer that has fired
clearTimeout(s) == IF s.timer = "armed" THEN [s EXCEPT !.timer = "cleared"] ELSE s

\* client.end(force)
clientEnd(s, force) ==
    IF force THEN [s EXCEPT !.client = "ended", !.forced = TRUE]
    ELSE IF s.client \in {"connecting", "connected"} THEN [s EXCEPT !.client = "disconnecting"]
    ELSE s

\* client.on("connect"): build the payload and publish it
onSendConnect(s) ==
    [s EXCEPT !.client = "connected", !.publishes = @ + 1,
              !.publishedAfterReject = @ \/ s.promise = "rejected"]

\* the callback of client.publish
onPublished(s, err) ==
    settle(clientEnd(clearTimeout([s EXCEPT !.callbacks = @ + 1]), FALSE),
           IF err THEN "rejected" ELSE "resolved", "publish")

\* client.on("error")
onSendError(s) == settle(clientEnd(clearTimeout(s), TRUE), "rejected", "error")

\* variant: the timer rejects and leaves the client running
onSendTimeout_noEnd(s) == settle([s EXCEPT !.timer = "fired"], "rejected", "timeout")

\* the 15 s timer
onSendTimeout(s) ==
    settle(clientEnd([s EXCEPT !.timer = "fired"], TRUE), "rejected", "timeout")

SendFrame ==
    UNCHANGED <<rosterVars, connVars, poolVars, otherVars, BAMBU_BRIDGE_MOCK_SUCCESS, delivered,
                afterShutdown, merged, metricsCache, reported, moreVars>>

\* sendPrintCommand is called (again, once the previous call has come to rest)
sendPrintCommand(serialNumber) ==
    /\ \/ sendCall = NoSend
       \/ sendCall.promise # "pending" /\ sendCall.client = "ended"
                /\ sendCall.callbacks = sendCall.publishes
    /\ sendCall' = [NoSend EXCEPT !.requestTopic = serialNumber, !.promise = "pending",
                                  !.timer = "armed", !.client = "connecting"]
    /\ SendFrame

\* the broker accepted the connection (first connect or a reconnect)
SendClientConnect ==
    /\ sendCall.client = "connecting"
    /\ sendCall.publishes < MaxPublishes
    /\ sendCall' = onSendConnect(sendCall)
    /\ SendFrame

\* the connection was lost; the client will reconnect
SendClientClose ==
    /\ sendCall.client = "connected"
    /\ sendCall' = [sendCall EXCEPT !.client = "connecting"]
    /\ SendFrame

\* a client that was asked to end has finished
SendClientEnded ==
    /\ sendCall.client = "disconnecting"
    /\ sendCall' = [sendCall EXCEPT !.client = "ended"]
    /\ SendFrame

\* the callback of a publish runs, with or without an error
SendPublishCallback(err) ==
    /\ sendCall.callbacks < sendCall.publishes
    /\ ~err => sendCall.client # "ended"
    /\ sendCall' = onPublished(sendCall, err)
    /\ SendFrame

\* the client emits "error"
SendClientError ==
    /\ sendCall.client \in {"connecting", "connected", "disconnecting"}
    /\ sendCall' = onSendError(sendCall)
    /\ SendFrame

\* 15 s have passed since the call
SendTimeout ==
    /\ sendCall.timer = "armed"
    /\ sendCall' = onSendTimeout(sendCall)
    /\ SendFrame

\* ------------------------------------------------------------------------
\* s3.ts: message listeners and the message handler of a pool client
\* (132-138, 212-225).  A payload is either well-formed JSON, with the value
\* JSON.parse returns for it, or malformed text, for which JSON.parse throws.
\* ------------------------------------------------------------------------
Listeners == {"metrics", "other"}

Payloads ==
    {[wellFormed |-> TRUE, value |-> "{print}"], [wellFormed |-> TRUE, value |-> "null"],
     [wellFormed |-> FALSE, value |-> "{pri"]}

JSONparse(payload) ==
    IF payload.wellFormed THEN [threw |-> FALSE, value |-> payload.value]
    ELSE [threw |-> TRUE, value |-> Undefined]

NoDelivery ==
    [toggle |-> 0, client |-> 0, registered |-> {}, throwers |-> {}, payload |-> Undefined,
     calls |-> <<>>]

\* variant: no try/catch around the call of a listener, so the first
\* exception leaves the loop through the outer catch
InvokeListeners_noInnerCatch(rest, printer, msg, throwers, calls) ==
    LET RECURSIVE loop(_, _)
        loop(todo, done) ==
            IF todo = {} THEN done
            ELSE LET listener == CHOOSE l \in todo : TRUE
                     call == [listener |-> listener, serialNumber |-> printer.serialNumber,
                              printerName |-> printer.name, msg |-> msg]
                 IN IF listener \in throwers THEN Append(done, call)
                    ELSE loop(todo \ {listener}, Append(done, call))
    IN loop(rest, calls)

\* for (const listener of listeners) { try { listener(...) } catch {} }
\* throwers are the listeners that throw when they are called
InvokeListeners(rest, printer, msg, throwers, calls) ==
    LET RECURSIVE loop(_, _)
        loop(todo, done) ==
            IF todo = {} THEN done
            ELSE LET listener == CHOOSE l \in todo : TRUE
                     call == [listener |-> listener, serialNumber |-> printer.serialNumber,
                              printerName |-> printer.name, msg |-> msg]
                 IN loop(todo \ {listener}, Append(done, call))
    IN loop(rest, calls)

\* client.on("message"): the calls made for one payload
onPoolMessage(printer, payload, throwers) ==
    LET parsed == JSONparse(payload) IN
    IF parsed.threw THEN <<>>
    ELSE InvokeListeners(listeners, printer, parsed.value, throwers, <<>>)

ListenFrame ==
    UNCHANGED <<rosterVars, connVars, pool, syncIntervalHandle, leakedInterval, syncs,
                rosterSynced, otherVars, BAMBU_BRIDGE_MOCK_SUCCESS, sendCall,
                afterShutdown, merged, metricsCache, reported, moreVars>>

addMessageListener(listener) ==
    /\ listeners' = listeners \cup {listener}
    /\ UNCHANGED delivered
    /\ ListenFrame

removeMessageListener(listener) ==
    /\ listeners' = listeners \ {listener}
    /\ UNCHANGED delivered
    /\ ListenFrame

\* the printer behind pool client c sends a payload on the report topic
PoolClientMessage(c, payload, throwers) ==
    /\ c \in PoolClientIds
    /\ clients[c].connected
    /\ throwers \subseteq listeners
    /\ LET serial == clients[c].serialNumber
           printer == [serialNumber |-> serial, name |-> pool[serial].printerName]
       IN delivered' = [toggle |-> 1 - delivered.toggle, client |-> c,
                        registered |-> listeners, throwers |-> throwers,
                        payload |-> payload,
                        calls |-> onPoolMessage(printer, payload, throwers)]
    /\ UNCHANGED listeners
    /\ ListenFrame
\* ------------------------------------------------------------------------
\* mergeReportIntoStatus followed report by report on one cached status
\* ------------------------------------------------------------------------
Tray(fields) == [fields |-> fields]

Unit(id, trays) == [fields |-> Put(<<>>, "id", Str(id)), tray |-> Array(trays)]

\* unit 0 with an empty slot 0 and PLA in slot 1; unit 1 with PETG in slot 2
UnitZero ==
    Unit(<<"0">>, <<Tray(Put(<<>>, "id", Str(<<"0">>))),
                  Tray(Put(Put(<<>>, "id", Str(<<"1">>)), "tray_type", Str(<<"P", "L", "A">>)))>>)
UnitOne ==
    Unit(<<"1">>, <<Tray(Put(Put(<<>>, "id", Str(<<"2">>)), "tray_type", Str(<<"P", "E", "T", "G">>)))>>)

AmsArrays == {NoArray, Array(<<UnitZero>>), Array(<<UnitZero, UnitOne>>)}

TrayNows == {Absent, Str(<<"0">>), Str(<<"1">>), Str(<<"6">>), Str(<<"2", "5", "4">>), Str(<<"2", "5", "5">>)}

VtTrays ==
    {NoObject(NoTray), Object(Tray(Put(<<>>, "tray_type", Str(<<"A", "B", "S">>)))),
     Object(Tray(Put(<<>>, "id", Str(<<"2", "5", "4">>))))}

Ams(tray_now, amsUnits) ==
    [fields |-> IF tray_now = Absent THEN <<>> ELSE Put(<<>>, "tray_now", tray_now),
     ams |-> amsUnits]

AmsReports ==
    {[NoReport EXCEPT !.ams = Object(Ams(tray_now, amsUnits)), !.vt_tray = vtTray] :
        tray_now \in TrayNows, amsUnits \in AmsArrays, vtTray \in VtTrays}

ScalarReports ==
    {[NoReport EXCEPT !.vt_tray = vtTray] : vtTray \in VtTrays}
    \cup {[NoReport EXCEPT !.fields = Put(@, "nozzle_temper", Str(<<"h", "o", "t">>))],
          [NoReport EXCEPT !.fields = Put(@, "subtask_name", Str(<<"m", ".", "3", "m", "f">>))],
          [NoReport EXCEPT !.fields = Put(@, "subtask_name", Str(NoText))]}

ExampleReport ==
    [NoReport EXCEPT !.fields = Put(@, "nozzle_temper", Num(210)),
                     !.ams = Object(Ams(Str(<<"1">>), Array(<<UnitZero>>)))]

Reports == AmsReports \cup ScalarReports \cup {ExampleReport}

NoMerge == [before |-> createEmptyStatus, report |-> NoReport, after |-> createEmptyStatus]

MergeFrame ==
    UNCHANGED <<rosterVars, connVars, poolVars, otherVars, BAMBU_BRIDGE_MOCK_SUCCESS,
                sendCall, delivered, afterShutdown, metricsCache, reported, moreVars>>

\* the message handler of a monitor client merges the print object of a message
MergeReport(report) ==
    /\ merged' = [before |-> merged.after, report |-> report,
                  after |-> mergeReportIntoStatus(merged.after, report)]
    /\ MergeFrame

\* connectBambuMonitor creates an entry: status = createEmptyStatus()
MergeNewEntry ==
    /\ merged' = NoMerge
    /\ MergeFrame

\* ------------------------------------------------------------------------
\* bambuCollector.ts: the metrics gauge store
\* ------------------------------------------------------------------------
\* parseFloat of a text without fraction or exponent, which is all the model
\* supplies: as [nan, n]
parseFloat(s) == parseInt(s)

\* String(n) of an integer
RECURSIVE String(_)
String(n) ==
    IF n < 0 THEN <<"-">> \o String(0 - n)
    ELSE IF n < 10 THEN <<DecimalDigits[n + 1]>>
    ELSE String(n \div 10) \o <<DecimalDigits[(n % 10) + 1]>>

sf64(value) ==
    IF value.t = "number" THEN value.n
    ELSE IF value.t # "string" THEN 0
    ELSE LET noDbm == IF endsWith(toLowerCase(value.s), <<"d", "b", "m">>)
                      THEN SubSeq(value.s, 1, Len(value.s) - 3) ELSE value.s
             cleaned == trim(IF endsWith(noDbm, <<"%">>) THEN SubSeq(noDbm, 1, Len(noDbm) - 1)
                             ELSE noDbm)
             n == parseFloat(cleaned)
         IN IF cleaned = NoText \/ n.nan THEN 0 ELSE n.n

sbool(value) ==
    IF value.t = "boolean" THEN value.n
    ELSE IF value.t = "number" THEN (IF value.n # 0 THEN 1 ELSE 0)
    ELSE IF value.t # "string" THEN 0
    ELSE IF toLowerCase(value.s) \in {<<"t", "r", "u", "e">>, <<"1">>, <<"e", "n", "a", "b", "l", "e">>, <<"o", "n">>} THEN 1 ELSE 0

sstr(value) ==
    IF value.t = "string" THEN value.s
    ELSE IF value.t = "number" THEN String(value.n)
    ELSE NoText

stateMap(state) ==
    IF state = <<"I", "D", "L", "E">> THEN 0 ELSE IF state = <<"R", "U", "N", "N", "I", "N", "G">> THEN 1
    ELSE IF state = <<"P", "A", "U", "S", "E", "D">> THEN 2 ELSE IF state = <<"C", "O", "M", "P", "L", "E", "T", "E", "D">> THEN 3
    ELSE IF state = <<"E", "R", "R", "O", "R">> THEN 4 ELSE 0

typeMap(type) == IF type = <<"c", "l", "o", "u", "d">> THEN 1 ELSE 0

mpsMap(state) == IF state = <<"a", "c", "t", "i", "v", "e">> THEN 1 ELSE 0

\* the cases of processPrintReport that set a gauge: <<key, gauge, conversion>>
printGauges ==
    {<<"nozzle_temper", "nozzle_temperature", "sf64">>,
     <<"nozzle_target_temper", "nozzle_target_temperature", "sf64">>,
     <<"bed_temper", "bed_temperature", "sf64">>,
     <<"bed_target_temper", "bed_target_temperature", "sf64">>,
     <<"chamber_temper", "chamber_temperature", "sf64">>,
     <<"heatbreak_fan_speed", "heatbreak_fan_speed", "sf64">>,
     <<"cooling_fan_speed", "cooling_fan_speed", "sf64">>,
     <<"big_fan1_speed", "big_fan1_speed", "sf64">>,
     <<"big_fan2_speed", "big_fan2_speed", "sf64">>,
     <<"mc_percent", "print_progress_percent", "sf64">>,
     <<"mc_remaining_time", "print_remaining_time_minutes", "sf64">>,
     <<"spd_mag", "print_speed_magnitude", "sf64">>,
     <<"spd_lvl", "print_speed_level", "sf64">>, <<"print_error", "print_error", "sf64">>,
     <<"wifi_signal", "wifi_signal_dbm", "sf64">>, <<"layer_num", "current_layer", "sf64">>,
     <<"total_layer_num", "total_layers", "sf64">>, <<"ams_status", "ams_status", "sf64">>,
     <<"ams_rfid_status", "ams_rfid_status", "sf64">>,
     <<"hw_switch_state", "hardware_switch_state", "sf64">>, <<"stg_cur", "stage", "sf64">>,
     <<"mc_print_stage", "print_stage", "sf64">>,
     <<"mc_print_sub_stage", "print_sub_stage", "sf64">>,
     <<"gcode_file_prepare_percent", "gcode_file_prepare_percent", "sf64">>,
     <<"queue_number", "queue_number", "sf64">>, <<"queue_total", "queue_total", "sf64">>,
     <<"queue_est", "queue_estimated_time_minutes", "sf64">>,
     <<"queue_sts", "queue_status", "sf64">>,
     <<"mc_print_line_number", "mc_print_line_number", "sf64">>,
     <<"nozzle_diameter", "nozzle_diameter_mm", "sf64">>, <<"k", "calibration_k", "sf64">>,
     <<"fan_gear", "fan_gear", "sf64">>, <<"home_flag", "home_flag", "sf64">>,
     <<"flag3", "flag3", "sf64">>, <<"cali_version", "calibration_version", "sf64">>,
     <<"sdcard", "sdcard_present", "sbool">>, <<"force_upgrade", "force_upgrade", "sbool">>,
     <<"gcode_state", "gcode_state", "stateMap">>, <<"print_type", "print_type", "typeMap">>,
     <<"mess_production_state", "mess_production_state", "mpsMap">>,
     <<"sequence_id", "sequence_id", "sf64">>, <<"msg", "msg", "sf64">>}

\* the cases of processAmsReport that set a gauge: <<key, gauge, conversion>>
amsGauges ==
    {<<"ams_exist_bits", "ams_exist_bits", "sf64">>,
     <<"tray_exist_bits", "tray_exist_bits", "sf64">>,
     <<"tray_is_bbl_bits", "tray_is_bbl_bits", "sf64">>,
     <<"tray_tar", "tray_target", "sf64">>, <<"tray_now", "tray_current", "sf64">>,
     <<"tray_pre", "tray_previous", "sf64">>,
     <<"tray_read_done_bits", "tray_read_done_bits", "sf64">>,
     <<"tray_reading_bits", "tray_reading_bits", "sf64">>,
     <<"version", "ams_version", "sf64">>, <<"insert_flag", "ams_insert_flag", "sbool">>,
     <<"power_on_flag", "ams_power_on_flag", "sbool">>}

\* the cases of processAmsArray that set a gauge of the unit: <<key, gauge, conversion>>
amsUnitGauges ==
    {<<"humidity", "ams_humidity", "sf64">>, <<"humidity_raw", "ams_humidity_raw", "sf64">>,
     <<"temp", "ams_temp_celsius", "sf64">>, <<"dry_time", "ams_dry_time_hours", "sf64">>,
     <<"info", "ams_info", "sf64">>}

\* the cases of processAmsTrayArray that set a gauge of the tray: <<key, gauge, conversion>>
amsTrayGauges ==
    {<<"id", "ams_tray_id", "sf64">>, <<"state", "ams_tray_state", "sf64">>,
     <<"remain", "ams_tray_remain", "sf64">>, <<"k", "ams_tray_k", "sf64">>,
     <<"n", "ams_tray_n", "sf64">>, <<"cali_idx", "ams_tray_cali_idx", "sf64">>,
     <<"total_len", "ams_tray_total_len", "sf64">>,
     <<"tray_diameter", "ams_tray_diameter_mm", "sf64">>,
     <<"tray_temp", "ams_tray_temp_celsius", "sf64">>,
     <<"tray_time", "ams_tray_time_hours", "sf64">>,
     <<"bed_temp_type", "ams_tray_bed_temp_type", "sf64">>,
     <<"bed_temp", "ams_tray_bed_temp_celsius", "sf64">>,
     <<"nozzle_temp_max", "ams_tray_nozzle_temp_max_celsius", "sf64">>,
     <<"nozzle_temp_min", "ams_tray_nozzle_temp_min_celsius", "sf64">>,
     <<"ctype", "ams_tray_ctype", "sf64">>}

\* the cases of processVtTrayReport that set a gauge: <<key, gauge, conversion>>
vtTrayGauges ==
    {<<"id", "vt_tray_id", "sf64">>, <<"remain", "vt_tray_remain", "sf64">>,
     <<"k", "vt_tray_k", "sf64">>, <<"n", "vt_tray_n", "sf64">>,
     <<"cali_idx", "vt_tray_cali_idx", "sf64">>,
     <<"tray_diameter", "vt_tray_diameter_mm", "sf64">>,
     <<"tray_temp", "vt_tray_temp_celsius", "sf64">>,
     <<"tray_time", "vt_tray_time_hours", "sf64">>,
     <<"bed_temp_type", "vt_tray_bed_temp_type", "sf64">>,
     <<"bed_temp", "vt_tray_bed_temp_celsius", "sf64">>,
     <<"nozzle_temp_max", "vt_tray_nozzle_temp_max_celsius", "sf64">>,
     <<"nozzle_temp_min", "vt_tray_nozzle_temp_min_celsius", "sf64">>,
     <<"ctype", "vt_tray_ctype", "sf64">>}

\* the value a case stores for the value of its key
Gauge(conversion, value) ==
    IF conversion = "sf64" THEN sf64(value)
    ELSE IF conversion = "sbool" THEN sbool(value)
    ELSE IF conversion = "stateMap" THEN stateMap(sstr(value))
    ELSE IF conversion = "typeMap" THEN typeMap(sstr(value))
    ELSE mpsMap(sstr(value))

\* the loop over Object.entries(object) with the cases of a table: every key
\* of the table the object carries sets its gauge in the map m
SetGauges(m, object, table) ==
    LET rows == {row \in table : row[1] \in DOMAIN object.fields}
        set == {row[2] : row \in rows}
    IN [gauge \in DOMAIN m \cup set |->
           IF gauge \in set
           THEN LET row == CHOOSE row \in rows : row[2] = gauge
                IN Gauge(row[3], object.fields[row[1]])
           ELSE m[gauge]]

createEmptyStore == [gauges |-> <<>>, amsUnit |-> <<>>, amsTray |-> <<>>]

\* store.get(key), a new Map when the key is missing
GetOrNew(m, key) == IF key \in DOMAIN m THEN m[key] ELSE <<>>

\* as processAmsTrayArray, but with a new tray map for every tray it is given
processAmsTrayArray_newTrayMap(store, amsId, trayArray) ==
    LET amsMap == GetOrNew(store.amsTray, amsId)
        set == [trayId \in {String(i - 1) : i \in 1..Len(trayArray)} |->
                   LET trayIndex == CHOOSE i \in 0..(Len(trayArray) - 1) : String(i) = trayId
                   IN SetGauges(<<>>, trayArray[trayIndex + 1], amsTrayGauges)]
    IN IF trayArray = <<>> THEN store
       ELSE [store EXCEPT !.amsTray = Put(@, amsId,
                [trayId \in DOMAIN amsMap \cup DOMAIN set |->
                    IF trayId \in DOMAIN set THEN set[trayId] ELSE amsMap[trayId]])]

processAmsTrayArray(store, amsId, trayArray) ==
    LET amsMap == GetOrNew(store.amsTray, amsId)
        set == [trayId \in {String(i - 1) : i \in 1..Len(trayArray)} |->
                   LET trayIndex == CHOOSE i \in 0..(Len(trayArray) - 1) : String(i) = trayId
                   IN SetGauges(GetOrNew(amsMap, trayId), trayArray[trayIndex + 1],
                                amsTrayGauges)]
    IN IF trayArray = <<>> THEN store
       ELSE [store EXCEPT !.amsTray = Put(@, amsId,
                [trayId \in DOMAIN amsMap \cup DOMAIN set |->
                    IF trayId \in DOMAIN set THEN set[trayId] ELSE amsMap[trayId]])]

\* one turn of the loop of processAmsArray, for the unit at amsIndex
processAmsUnit(store, amsIndex, amsValue) ==
    LET amsId == String(amsIndex)
        unit == IF \E row \in amsUnitGauges : row[1] \in DOMAIN amsValue.fields
                THEN [store EXCEPT !.amsUnit =
                         Put(@, amsId, SetGauges(GetOrNew(@, amsId), amsValue, amsUnitGauges))]
                ELSE store
    IN IF amsValue.tray.t = "array" THEN processAmsTrayArray(unit, amsId, amsValue.tray.a)
       ELSE unit

processAmsArray(store, amsArray) ==
    LET RECURSIVE loop(_, _)
        loop(st, amsIndex) ==
            IF amsIndex >= Len(amsArray) THEN st
            ELSE loop(processAmsUnit(st, amsIndex, amsArray[amsIndex + 1]), amsIndex + 1)
    IN loop(store, 0)

processAmsReport(store, report) ==
    LET gauges == [store EXCEPT !.gauges = SetGauges(@, report, amsGauges)]
    IN IF report.ams.t = "array" THEN processAmsArray(gauges, report.ams.a) ELSE gauges

processVtTrayReport(store, report) ==
    [store EXCEPT !.gauges = SetGauges(@, report, vtTrayGauges)]

\* the cases of one table set gauges no other table sets, so the order of the
\* keys of the report makes no difference
processPrintReport(store, report) ==
    LET gauges == [store EXCEPT !.gauges = SetGauges(@, report, printGauges)]
        ams == IF report.ams.t = "object" THEN processAmsReport(gauges, report.ams.o)
               ELSE gauges
    IN IF report.vt_tray.t = "object" THEN processVtTrayReport(ams, report.vt_tray.o)
       ELSE ams

\* a message is [fields, print]: its top-level keys other than print, and
\* print as [t, o]
processReport(store, msg) ==
    IF msg.print.t = "object" THEN processPrintReport(store, msg.print.o) ELSE store

\* the listener initBambuMetricsListener registers
registeredListener(cache, serialNumber, printerName, msg) ==
    LET entry == IF serialNumber \in DOMAIN cache THEN cache[serialNumber]
                 ELSE [printerName |-> printerName, store |-> createEmptyStore]
    IN Put(cache, serialNumber,
           [printerName |-> printerName, store |-> processReport(entry.store, msg)])

\* ------------------------------------------------------------------------
\* The metrics listener followed message by message
\* ------------------------------------------------------------------------
Fields(pairs) ==
    LET RECURSIVE put(_, _)
        put(f, i) == IF i > Len(pairs) THEN f ELSE put(Put(f, pairs[i][1], pairs[i][2]), i + 1)
    IN put(<<>>, 1)

MetricsUnit(fields, trays) == [fields |-> fields, tray |-> trays]

\* print objects: whitelisted keys with numbers and with text, a key the
\* collector knows and ignores, a key it does not know, and AMS and external
\* tray data
MetricsReports ==
    {[NoReport EXCEPT !.fields = Fields(<<<<"nozzle_temper", Num(210)>>>>)],
     [NoReport EXCEPT !.fields = Fields(<<<<"nozzle_temper", Str(<<"2", "1", "5">>)>>,
                                          <<"wifi_signal", Str(<<"-", "4", "5", "d", "B", "m">>)>>>>)],
     [NoReport EXCEPT !.fields = Fields(<<<<"gcode_state", Str(<<"R", "U", "N", "N", "I", "N", "G">>)>>,
                                          <<"sdcard", Bool(TRUE)>>>>)],
     [NoReport EXCEPT !.fields = Fields(<<<<"subtask_name", Str(<<"m", ".", "3", "m", "f">>)>>>>)],
     [NoReport EXCEPT !.fields = Fields(<<<<"foo", Num(1)>>>>)],
     [NoReport EXCEPT !.vt_tray = Object(Tray(Fields(<<<<"id", Str(<<"2", "5", "4">>)>>,
                                                       <<"remain", Num(10)>>>>)))],
     [NoReport EXCEPT !.ams = Object([fields |-> Fields(<<<<"tray_now", Str(<<"1">>)>>>>),
                                      ams |-> NoArray])],
     [NoReport EXCEPT !.ams = Object([fields |-> <<>>, ams |-> Array(<<
         MetricsUnit(Fields(<<<<"id", Str(<<"0">>)>>, <<"humidity", Str(<<"3">>)>>>>),
                     Array(<<Tray(Fields(<<<<"id", Str(<<"0">>)>>, <<"remain", Num(80)>>>>)),
                             Tray(Fields(<<<<"id", Str(<<"1">>)>>,
                                           <<"tray_type", Str(<<"P", "L", "A">>)>>>>))>>))>>)])],
     [NoReport EXCEPT !.ams = Object([fields |-> <<>>, ams |-> Array(<<
         MetricsUnit(Fields(<<<<"id", Str(<<"0">>)>>>>),
                     Array(<<Tray(Fields(<<<<"remain", Num(50)>>>>))>>))>>)])],
     [NoReport EXCEPT !.ams = Object([fields |-> <<>>, ams |-> Array(<<
         MetricsUnit(Fields(<<<<"id", Str(<<"0">>)>>>>), NoArray),
         MetricsUnit(Fields(<<<<"temp", Num(25)>>>>),
                     Array(<<Tray(Fields(<<<<"foo", Num(1)>>>>))>>))>>)])]}

\* messages: a print object, print that is no object, and no print at all
Messages ==
    {[fields |-> <<>>, print |-> Object(report)] : report \in MetricsReports}
    \cup {[fields |-> Fields(<<<<"system", Num(1)>>>>), print |-> NoObject(NoReport)],
          [fields |-> <<>>, print |-> [t |-> "string", o |-> NoReport]]}

PrinterNames == {"P1", "P2"}

NoReported == [serialNumber |-> NoText, msg |-> [fields |-> <<>>, print |-> NoObject(NoReport)],
               before |-> <<>>]

MetricsFrame ==
    UNCHANGED <<rosterVars, connVars, poolVars, otherVars, BAMBU_BRIDGE_MOCK_SUCCESS,
                sendCall, delivered, afterShutdown, merged, moreVars>>

\* the pool delivers a message of a printer to the metrics listener
MetricsMessage(serialNumber, printerName, msg) ==
    /\ metricsCache' = registeredListener(metricsCache, serialNumber, printerName, msg)
    /\ reported' = [serialNumber |-> serialNumber, msg |-> msg, before |-> metricsCache]
    /\ MetricsFrame

\* registeredListener is null, no initBambuMetricsListener call was made
NoListenerInit == [registered |-> FALSE, calls |-> 0]

MaxInits == 2

\* a call returns at once when registeredListener is set; otherwise it makes
\* the listener, keeps it in registeredListener and adds it to the pool's set
initBambuMetricsListener ==
    /\ listenerInit.calls < MaxInits
    /\ listenerInit' = [registered |-> TRUE, calls |-> listenerInit.calls + 1]
    /\ listeners' = IF listenerInit.registered THEN listeners ELSE listeners \cup {"metrics"}
    /\ UNCHANGED <<rosterVars, connVars, pool, syncIntervalHandle, leakedInterval, syncs,
                   rosterSynced, otherVars, BAMBU_BRIDGE_MOCK_SUCCESS, sendCall, delivered,
                   afterShutdown, merged, metricsCache, reported, exceptListenerInit>>

shutdownBambuMetricsListener ==
    /\ listeners' = IF listenerInit.registered THEN listeners \ {"metrics"} ELSE listeners
    /\ listenerInit' = [listenerInit EXCEPT !.registered = FALSE]
    /\ metricsCache' = <<>>
    /\ reported' = NoReported
    /\ UNCHANGED <<rosterVars, connVars, pool, syncIntervalHandle, leakedInterval, syncs,
                   rosterSynced, otherVars, BAMBU_BRIDGE_MOCK_SUCCESS, sendCall, delivered,
                   afterShutdown, merged, exceptListenerInit>>

\* ------------------------------------------------------------------------
\* mergeReportIntoStatus applied to one report of a new entry: the tray
\* inventory amsTrays built from ams.ams and vt_tray
\* ------------------------------------------------------------------------
MaxUnits == 2

\* tray lists of a unit: slots 0 and 1; slots 1 and 2 with state and remain;
\* a slot id beyond 3; ids that are no string or no number; one slot id twice
TrayLists ==
    {<<>>,
     <<Tray(Put(<<>>, "id", Str(<<"0">>))),
       Tray(Put(Put(<<>>, "id", Str(<<"1">>)), "tray_type", Str(<<"P", "L", "A">>)))>>,
     <<Tray(Put(Put(<<>>, "id", Str(<<"1">>)), "state", Num(3))),
       Tray(Put(Put(<<>>, "id", Str(<<"2">>)), "remain", Num(50)))>>,
     <<Tray(Put(Put(<<>>, "id", Str(<<"4">>)), "tray_type", Str(<<"P", "E", "T", "G">>)))>>,
     <<Tray(Put(<<>>, "id", Num(0))), Tray(Put(<<>>, "id", Str(<<"x">>))),
       Tray(Put(Put(<<>>, "id", Str(<<"3">>)), "tray_color", Str(<<"F", "F">>)))>>,
     <<Tray(Put(<<>>, "id", Str(<<"0">>))),
       Tray(Put(Put(<<>>, "id", Str(<<"0">>)), "tray_type", Str(<<"P", "L", "A">>)))>>}

UnitIds == {<<"0">>, <<"1">>, <<"6", "3">>, <<"x">>}

TrayUnits ==
    {Unit(id, trays) : id \in UnitIds, trays \in TrayLists}
    \cup {[fields |-> Put(<<>>, "id", Str(<<"0">>)), tray |-> NoArray]}

UnitArrays == UNION {[1..n -> TrayUnits] : n \in 0..MaxUnits}

TrayReports ==
    {[NoReport EXCEPT !.ams = Object(Ams(Absent, Array(amsUnits))), !.vt_tray = vtTray] :
        amsUnits \in UnitArrays, vtTray \in VtTrays}

\* the message handler of a monitor client merges the first report of an entry
MergeFirstReport ==
    /\ merged.after = createEmptyStatus
    /\ merged' = [merged EXCEPT !.after = mergeReportIntoStatus(merged.before, merged.report)]
    /\ MergeFrame
\* ------------------------------------------------------------------------
\* Prusa metrics collector (prusaCollector.ts)
\* ------------------------------------------------------------------------
\* PrusaPrinter.state.flags
FlagNames ==
    {"operational", "paused", "printing", "cancelling", "pausing", "error", "sdReady",
     "closedOnError", "ready", "busy", "closedOrError", "finished", "prepared"}

\* as getStateFlag, but error is tested before the flags of a running job
getStateFlag_errorFirst(printer) ==
    LET f == printer.state.flags IN
    IF f.operational THEN 1
    ELSE IF f.prepared THEN 2
    ELSE IF f.error THEN 7
    ELSE IF f.paused THEN 3
    ELSE IF f.printing THEN 4
    ELSE IF f.cancelling THEN 5
    ELSE IF f.pausing THEN 6
    ELSE IF f.sdReady THEN 8
    ELSE IF f.closedOrError \/ f.closedOnError THEN 9
    ELSE IF f.ready THEN 10
    ELSE IF f.busy THEN 11
    ELSE IF f.finished THEN 12
    ELSE 0

getStateFlag(printer) ==
    LET f == printer.state.flags IN
    IF f.operational THEN 1
    ELSE IF f.prepared THEN 2
    ELSE IF f.paused THEN 3
    ELSE IF f.printing THEN 4
    ELSE IF f.cancelling THEN 5
    ELSE IF f.pausing THEN 6
    ELSE IF f.error THEN 7
    ELSE IF f.sdReady THEN 8
    ELSE IF f.closedOrError \/ f.closedOnError THEN 9
    ELSE IF f.ready THEN 10
    ELSE IF f.busy THEN 11
    ELSE IF f.finished THEN 12
    ELSE 0

\* the /api/printer answers, by their flags
PrinterAnswers == {[state |-> [flags |-> flags]] : flags \in [FlagNames -> BOOLEAN]}

NoStateFlag == [printer |-> [state |-> [flags |-> [name \in FlagNames |-> FALSE]]], flag |-> None]

PrusaFrame ==
    UNCHANGED <<rosterVars, connVars, poolVars, otherVars, BAMBU_BRIDGE_MOCK_SUCCESS,
                sendCall, delivered, afterShutdown, merged, metricsCache, reported>>

\* scrapePrinter computes the value of prusa_status_info
StateFlagCall ==
    /\ stateFlag.flag = None
    /\ stateFlag' = [stateFlag EXCEPT !.flag = Some(getStateFlag(stateFlag.printer))]
    /\ UNCHANGED exceptStateFlag
    /\ PrusaFrame

\* ------------------------------------------------------------------------
\* One collectPrusaMetrics run
\* ------------------------------------------------------------------------
PRINTER_TYPES ==
    [hostname \in {<<"P", "r", "u", "s", "a", "M", "I", "N", "I">>, <<"P", "r", "u", "s", "a", "M", "K", "4">>, <<"P", "r", "u", "s", "a", "X", "L">>, <<"P", "r", "u", "s", "a", "L", "i", "n", "k", " ", "I", "3", "M", "K", "3", "S">>,
                   <<"P", "r", "u", "s", "a", "L", "i", "n", "k", " ", "I", "3", "M", "K", "3">>, <<"P", "r", "u", "s", "a", "L", "i", "n", "k", " ", "I", "3", "M", "K", "2", "5", "S">>, <<"P", "r", "u", "s", "a", "L", "i", "n", "k", " ", "I", "3", "M", "K", "2", "5">>,
                   <<"p", "r", "u", "s", "a", "-", "s", "l", "1">>, <<"p", "r", "u", "s", "a", "-", "s", "l", "1", "s">>, <<"P", "r", "u", "s", "a", "_", "i", "X">>} |->
        CASE hostname = <<"P", "r", "u", "s", "a", "M", "I", "N", "I">> -> <<"M", "I", "N", "I">>
          [] hostname = <<"P", "r", "u", "s", "a", "M", "K", "4">> -> <<"M", "K", "4">>
          [] hostname = <<"P", "r", "u", "s", "a", "X", "L">> -> <<"X", "L">>
          [] hostname = <<"P", "r", "u", "s", "a", "L", "i", "n", "k", " ", "I", "3", "M", "K", "3", "S">> -> <<"I", "3", "M", "K", "3", "S">>
          [] hostname = <<"P", "r", "u", "s", "a", "L", "i", "n", "k", " ", "I", "3", "M", "K", "3">> -> <<"I", "3", "M", "K", "3">>
          [] hostname = <<"P", "r", "u", "s", "a", "L", "i", "n", "k", " ", "I", "3", "M", "K", "2", "5", "S">> -> <<"I", "3", "M", "K", "2", "5", "S">>
          [] hostname = <<"P", "r", "u", "s", "a", "L", "i", "n", "k", " ", "I", "3", "M", "K", "2", "5">> -> <<"I", "3", "M", "K", "2", "5">>
          [] hostname = <<"p", "r", "u", "s", "a", "-", "s", "l", "1">> -> <<"S", "L", "1">>
          [] hostname = <<"p", "r", "u", "s", "a", "-", "s", "l", "1", "s">> -> <<"S", "L", "1", "S">>
          [] OTHER -> <<"I", "X">>]

\* a || b on JSON values: b unless a is a string that is not empty
OrElse(a, b) == IF a.t = "string" /\ a.s # NoText THEN a ELSE b

\* a ?? b on JSON values
Coalesce(a, b) == IF a.t = "undefined" THEN b ELSE a

\* detectPrinterModel: [model, cache]; version and info are None or Some(body)
detectPrinterModel(cache, address, version, info) ==
    IF version = None
    THEN [model |-> IF address \in DOMAIN cache THEN cache[address] ELSE Str(<<"P", "R", "U", "S", "A">>),
          cache |-> cache]
    ELSE LET infoHostname == IF info = None THEN Absent ELSE info[1].hostname
             hostname == OrElse(OrElse(OrElse(version[1].original, version[1].hostname),
                                       infoHostname), Str(NoText))
             known == IF hostname.t = "string" /\ hostname.s \in DOMAIN PRINTER_TYPES
                      THEN Str(PRINTER_TYPES[hostname.s]) ELSE Absent
             detected == OrElse(OrElse(known, hostname), Str(<<"P", "R", "U", "S", "A">>))
         IN [model |-> detected, cache |-> Put(cache, address, detected)]

\* what the printer (or the network) does with one request
FailureKinds == {"network error", "timeout", "status 503"}

Failure(kind) == [kind |-> kind, body |-> None]
Json(body) == [kind |-> "json", body |-> Some(body)]

\* fetchEndpoint: the parsed body of a 2xx answer, null (None) otherwise
fetchEndpoint(answer) == IF answer.kind = "json" THEN answer.body ELSE None

\* a sample value: n / d
Value(n) == [n |-> n, d |-> 1]
Per(n, d) == [n |-> n, d |-> d]

SampleEntry(metric, value, labels) == [metric |-> metric, value |-> value, labels |-> labels]

Labels(pairs) == [k \in {p[1] : p \in pairs} |-> (CHOOSE p \in pairs : p[1] = k)[2]]

\* the prusa_up sample of a printer that did not answer
Unreachable(sc) ==
    SampleEntry("prusa_up", Value(0),
                Labels({<<"printer_address", Str(sc.printer.ipAddress)>>,
                        <<"printer_model", sc.cachedModel>>,
                        <<"printer_name", Str(sc.printer.name)>>}))

NoScrape ==
    [printer |-> [name |-> NoText, ipAddress |-> NoText], pc |-> "job",
     cachedModel |-> Str(<<"P", "R", "U", "S", "A">>), job |-> None, pd |-> None, ver |-> None,
     status |-> None, info |-> None, samples |-> <<>>, requests |-> <<>>]

\* variant: the label of an unreachable printer is always PRUSA
scrapeBegin_noCache(printer, cache) ==
    [NoScrape EXCEPT !.printer = printer, !.requests = <<"/api/job">>]

\* scrapePrinter up to its first await
scrapeBegin(printer, cache) ==
    [NoScrape EXCEPT
        !.printer = printer,
        !.cachedModel = IF printer.ipAddress \in DOMAIN cache THEN cache[printer.ipAddress]
                        ELSE Str(<<"P", "R", "U", "S", "A">>),
        !.requests = <<"/api/job">>]

\* as scrapeRequired, but a printer that did not answer gets no sample
scrapeRequired_noSample(sc, res) ==
    IF res = None THEN [sc EXCEPT !.pc = "done"]
    ELSE CASE sc.pc = "job" ->
                [sc EXCEPT !.job = res, !.pc = "printer", !.requests = Append(@, "/api/printer")]
           [] sc.pc = "printer" ->
                [sc EXCEPT !.pd = res, !.pc = "version", !.requests = Append(@, "/api/version")]
           [] OTHER ->
                [sc EXCEPT !.ver = res, !.pc = "optional",
                           !.requests = @ \o <<"/api/v1/status", "/api/v1/info">>]

\* scrapePrinter from the answer of a required endpoint to its next await
scrapeRequired(sc, res) ==
    IF res = None THEN [sc EXCEPT !.samples = <<Unreachable(sc)>>, !.pc = "done"]
    ELSE CASE sc.pc = "job" ->
                [sc EXCEPT !.job = res, !.pc = "printer", !.requests = Append(@, "/api/printer")]
           [] sc.pc = "printer" ->
                [sc EXCEPT !.pd = res, !.pc = "version", !.requests = Append(@, "/api/version")]
           [] OTHER ->
                [sc EXCEPT !.ver = res, !.pc = "optional",
                           !.requests = @ \o <<"/api/v1/status", "/api/v1/info">>]

\* the samples scrapePrinter pushes after all five answers, in order
scrapeSamples(sc, model, status, info) ==
    LET job == sc.job[1]
        pd == sc.pd[1]
        ver == sc.ver[1]
        addr == Str(sc.printer.ipAddress)
        name == Str(sc.printer.name)
        jobName == Coalesce(job.name, Str(NoText))
        jobPath == Coalesce(job.path, Str(NoText))
        special == {<<"printer_address", addr>>, <<"printer_model", model>>,
                    <<"printer_name", name>>}
        jobLabels == special \cup {<<"printer_job_name", jobName>>, <<"printer_job_path", jobPath>>}
        common(extra) == Labels(jobLabels \cup extra)
        infoField(key) == IF info = None THEN Str(NoText) ELSE Coalesce(info[1][key], Str(NoText))
        progress(key) == IF job.progress = None THEN 0 ELSE job.progress[1][key]
        material == Coalesce(pd.telemetry[1].material, Str(NoText))
    IN <<SampleEntry("prusa_info", Value(1),
                     common({<<"api_version", Coalesce(ver.api, Str(NoText))>>,
                             <<"server_version", Coalesce(ver.server, Str(NoText))>>,
                             <<"version_text", Coalesce(ver.text, Str(NoText))>>,
                             <<"prusalink_name", infoField("name")>>,
                             <<"printer_location", infoField("location")>>,
                             <<"serial_number", infoField("serial")>>,
                             <<"printer_hostname", infoField("hostname")>>})),
         SampleEntry("prusa_job", Value(IF jobName # Str(NoText) THEN 1 ELSE 0), Labels(jobLabels))>>
       \o (IF status = None THEN <<>>
           ELSE <<SampleEntry("prusa_fan_speed_rpm", Value(status[1].printer[1].fan_hotend),
                              common({<<"fan", Str(<<"h", "o", "t", "e", "n", "d">>)>>})),
                  SampleEntry("prusa_fan_speed_rpm", Value(status[1].printer[1].fan_print),
                              common({<<"fan", Str(<<"p", "r", "i", "n", "t">>)>>})),
                  SampleEntry("prusa_print_flow_ratio", Per(status[1].printer[1].flow, 100),
                              common({}))>>)
       \o (IF info = None THEN <<>>
           ELSE <<SampleEntry("prusa_nozzle_size_meters", Per(info[1].nozzle_diameter, 10),
                              common({})),
                  SampleEntry("prusa_mmu", Value(IF info[1].mmu THEN 1 ELSE 0), common({}))>>)
       \o <<SampleEntry("prusa_print_speed_ratio", Per(pd.telemetry[1].print_speed, 100), common({})),
            SampleEntry("prusa_print_time_seconds", Value(progress("printTime")), common({})),
            SampleEntry("prusa_printing_time_remaining_seconds",
                        Value(progress("printTimeLeft")), common({})),
            SampleEntry("prusa_printing_progress_ratio", Value(progress("completion")), common({})),
            SampleEntry("prusa_material_info", Value(IF "-" \in Range(material.s) THEN 0 ELSE 1),
                        common({<<"printer_filament", material>>})),
            SampleEntry("prusa_axis", Value(pd.telemetry[1].axis_x),
                        common({<<"printer_axis", Str(<<"x">>)>>})),
            SampleEntry("prusa_axis", Value(pd.telemetry[1].axis_y),
                        common({<<"printer_axis", Str(<<"y">>)>>})),
            SampleEntry("prusa_axis", Value(pd.telemetry[1].axis_z),
                        common({<<"printer_axis", Str(<<"z">>)>>})),
            SampleEntry("prusa_temperature_celsius", Value(pd.temperature.bed.actual),
                        common({<<"printer_heated_element", Str(<<"b", "e", "d">>)>>})),
            SampleEntry("prusa_temperature_celsius", Value(pd.temperature.tool0.actual),
                        common({<<"printer_heated_element", Str(<<"t", "o", "o", "l", "0">>)>>})),
            SampleEntry("prusa_temperature_target_celsius", Value(pd.temperature.bed.target),
                        common({<<"printer_heated_element", Str(<<"b", "e", "d">>)>>})),
            SampleEntry("prusa_temperature_target_celsius", Value(pd.temperature.tool0.target),
                        common({<<"printer_heated_element", Str(<<"t", "o", "o", "l", "0">>)>>})),
            SampleEntry("prusa_status_info", Value(getStateFlag(pd)),
                        common({<<"printer_state", pd.state.text>>})),
            SampleEntry("prusa_up", Value(1), Labels(special))>>

\* a property of undefined is read: status.printer or pd.telemetry is missing
scrapeThrows(sc, status) ==
    \/ status # None /\ status[1].printer = None
    \/ sc.pd[1].telemetry = None

\* scrapePrinter from the answers of /api/v1/status and /api/v1/info to its
\* end: [sc, cache]
scrapeOptional(sc, cache, status, info) ==
    LET detected == detectPrinterModel(cache, sc.printer.ipAddress, sc.ver, info)
        answered == [sc EXCEPT !.status = status, !.info = info]
    IN [cache |-> detected.cache,
        sc |-> IF scrapeThrows(sc, status) THEN [answered EXCEPT !.pc = "threw"]
               ELSE [answered EXCEPT !.pc = "done",
                                     !.samples = scrapeSamples(sc, detected.model, status, info)]]

\* escapeLabel throws for a value that has no replace method
formatThrows(allSamples) ==
    \E i \in 1..Len(allSamples) :
        \E k \in DOMAIN allSamples[i].labels : allSamples[i].labels[k].t # "string"

\* the metric names in the order of their first sample (Map insertion order)
RECURSIVE MetricOrder(_, _)
MetricOrder(allSamples, seen) ==
    IF allSamples = <<>> THEN <<>>
    ELSE IF Head(allSamples).metric \in seen THEN MetricOrder(Tail(allSamples), seen)
    ELSE <<Head(allSamples).metric>>
         \o MetricOrder(Tail(allSamples), seen \cup {Head(allSamples).metric})

\* formatGauge: the HELP and TYPE lines of a metric, then one line per sample
formatGauge(name, samples) ==
    <<[line |-> "# HELP", name |-> name, value |-> Value(0), labels |-> <<>>],
      [line |-> "# TYPE", name |-> name, value |-> Value(0), labels |-> <<>>]>>
    \o [i \in 1..Len(samples) |->
           [line |-> "sample", name |-> name, value |-> samples[i].value,
            labels |-> samples[i].labels]]

RECURSIVE FlattenLines(_)
FlattenLines(blocks) ==
    IF blocks = <<>> THEN <<>> ELSE Head(blocks) \o FlattenLines(Tail(blocks))

\* the samples of the fulfilled scrapes, in roster order
RECURSIVE FulfilledSamples(_)
FulfilledSamples(scrapes) ==
    IF scrapes = <<>> THEN <<>>
    ELSE (IF Head(scrapes).pc = "done" THEN Head(scrapes).samples ELSE <<>>)
         \o FulfilledSamples(Tail(scrapes))

\* collectPrusaMetrics after Promise.allSettled: [run, lines]
prusaSettled(scrapes) ==
    LET allSamples == FulfilledSamples(scrapes)
        order == MetricOrder(allSamples, {})
    IN IF formatThrows(allSamples) THEN [run |-> "rejected", lines |-> <<>>]
       ELSE [run |-> "fulfilled",
             lines |-> FlattenLines([g \in 1..Len(order) |->
                          formatGauge(order[g],
                                      SelectSeq(allSamples, LAMBDA e : e.metric = order[g]))])]

\* detected, succeeded and runs are history: the model each address was last
\* detected with, the addresses a scrape reported as up, the runs answered
NoPrusa ==
    [run |-> "none", scrapes |-> <<>>, printerModelCache |-> <<>>, lines |-> <<>>,
     detected |-> <<>>, succeeded |-> {}, runs |-> 0]

\* ---- the answers of the printers ----
PrusaOne == [name |-> <<"m", "k", "4">>, ipAddress |-> <<"1", "0", ".", "0", ".", "1", ".", "1">>]
PrusaTwo == [name |-> <<"m", "i", "n", "i">>, ipAddress |-> <<"1", "0", ".", "0", ".", "1", ".", "2">>]

PrusaRosters == {<<>>, <<PrusaOne>>, <<PrusaOne, PrusaTwo>>}

JobBodies ==
    {[name |-> Str(<<"a", ".", "g", "c", "o", "d", "e">>), path |-> Str(<<"/", "u", "s", "b", "/", "a", ".", "g", "c", "o", "d", "e">>),
      progress |-> Some([printTime |-> 60, printTimeLeft |-> 540, completion |-> 10])],
     [name |-> Absent, path |-> Absent, progress |-> None]}

Telemetry ==
    [print_speed |-> 100, material |-> Str(<<"P", "L", "A">>), axis_x |-> 10, axis_y |-> 20, axis_z |-> 3]

Temperature == [bed |-> [actual |-> 60, target |-> 60], tool0 |-> [actual |-> 215, target |-> 220]]

PrintingFlags == [name \in FlagNames |-> name \in {"printing", "error"}]

\* a complete answer, one without telemetry, one without state.text
PrinterBodies ==
    {[telemetry |-> Some(Telemetry), temperature |-> Temperature,
      state |-> [text |-> Str(<<"P", "r", "i", "n", "t", "i", "n", "g">>), flags |-> PrintingFlags]],
     [telemetry |-> None, temperature |-> Temperature,
      state |-> [text |-> Str(<<"P", "r", "i", "n", "t", "i", "n", "g">>), flags |-> PrintingFlags]],
     [telemetry |-> Some(Telemetry), temperature |-> Temperature,
      state |-> [text |-> Absent, flags |-> PrintingFlags]]}

VersionBodies ==
    {[api |-> Str(<<"2", ".", "0">>), server |-> Str(<<"2", ".", "1">>), text |-> Str(<<"P", "r", "u", "s", "a", "L", "i", "n", "k">>),
      original |-> Str(<<"P", "r", "u", "s", "a", "M", "K", "4">>), hostname |-> Str(<<"m", "k", "4", ".", "l", "o", "c", "a", "l">>)],
     [api |-> Str(<<"2", ".", "0">>), server |-> Absent, text |-> Absent,
      original |-> Absent, hostname |-> Absent]}

StatusBodies ==
    {[printer |-> Some([fan_hotend |-> 4000, fan_print |-> 3000, flow |-> 95])],
     [printer |-> None]}

InfoBodies ==
    {[mmu |-> FALSE, name |-> Str(<<"l", "a", "b">>), location |-> Absent, nozzle_diameter |-> 4,
      serial |-> Str(<<"S", "N", "1">>), hostname |-> Str(<<"P", "r", "u", "s", "a", "M", "I", "N", "I">>)]}

Answers(bodies) == {Failure(kind) : kind \in FailureKinds} \cup {Json(body) : body \in bodies}

RequiredAnswers(pc) ==
    CASE pc = "job" -> Answers(JobBodies)
      [] pc = "printer" -> Answers(PrinterBodies)
      [] OTHER -> Answers(VersionBodies)

\* ---- the run, event by event ----
\* printerModelCache as earlier runs can have left it
PrusaCaches == {<<>>, Put(<<>>, PrusaOne.ipAddress, Str(<<"M", "K", "4">>))}

\* collectPrusaMetrics is called: findMany answers, every scrape starts
collectPrusaMetrics(found, rosterRead) ==
    /\ prusa.run = "none"
    /\ prusa' =
          IF ~rosterRead THEN [prusa EXCEPT !.run = "rejected", !.scrapes = <<>>, !.lines = <<>>]
          ELSE IF found = <<>> THEN [prusa EXCEPT !.run = "fulfilled", !.scrapes = <<>>, !.lines = <<>>]
          ELSE [prusa EXCEPT
                   !.run = "scraping", !.lines = <<>>,
                   !.scrapes = [i \in 1..Len(found) |-> scrapeBegin(found[i], prusa.printerModelCache)]]
    /\ UNCHANGED exceptPrusa
    /\ PrusaFrame

\* the fetch of /api/job, /api/printer or /api/version of one scrape settles
ScrapeRequiredAnswer(i, answer) ==
    /\ prusa.run = "scraping"
    /\ prusa.scrapes[i].pc \in {"job", "printer", "version"}
    /\ prusa' = [prusa EXCEPT !.scrapes[i] = scrapeRequired(@, fetchEndpoint(answer))]
    /\ UNCHANGED exceptPrusa
    /\ PrusaFrame

\* both fetches of Promise.all([status, info]) of one scrape have settled
ScrapeOptionalAnswers(i, status, info) ==
    /\ prusa.run = "scraping"
    /\ prusa.scrapes[i].pc = "optional"
    /\ LET st == scrapeOptional(prusa.scrapes[i], prusa.printerModelCache,
                                fetchEndpoint(status), fetchEndpoint(info))
           addr == prusa.scrapes[i].printer.ipAddress
       IN prusa' = [prusa EXCEPT !.scrapes[i] = st.sc, !.printerModelCache = st.cache,
                                 !.detected = Put(@, addr, st.cache[addr]),
                                 !.succeeded = IF st.sc.pc = "done" THEN @ \cup {addr} ELSE @]
    /\ UNCHANGED exceptPrusa
    /\ PrusaFrame

\* Promise.allSettled resolves: the samples are grouped and formatted
PrusaAllSettled ==
    /\ prusa.run = "scraping"
    /\ \A i \in 1..Len(prusa.scrapes) : prusa.scrapes[i].pc \in {"done", "threw"}
    /\ LET settled == prusaSettled(prusa.scrapes)
       IN prusa' = [prusa EXCEPT !.run = settled.run, !.lines = settled.lines]
    /\ UNCHANGED exceptPrusa
    /\ PrusaFrame

\* the response of the run was sent; the next scrape request may come
MaxRuns == 2

PrusaResponded ==
    /\ prusa.run \in {"fulfilled", "rejected"}
    /\ prusa.runs + 1 < MaxRuns
    /\ prusa' = [prusa EXCEPT !.run = "none", !.runs = @ + 1]
    /\ UNCHANGED exceptPrusa
    /\ PrusaFrame

\* ------------------------------------------------------------------------
\* Metrics orchestrator (metrics.ts collectMetrics)
\* ------------------------------------------------------------------------
\* a settled promise of a section: its text, or the reason it rejected with
Fulfilled(value) == [status |-> "fulfilled", value |-> value, reason |-> NoText]
Rejected_(reason) == [status |-> "rejected", value |-> NoText, reason |-> reason]

RECURSIVE joinBlocks(_, _)
joinBlocks(parts, separator) ==
    IF parts = <<>> THEN <<>>
    ELSE IF Len(parts) = 1 THEN parts[1]
    ELSE parts[1] \o separator \o joinBlocks(Tail(parts), separator)

\* what the loop over the settled sections pushes for one of them
RenderSection(result) ==
    IF result.status = "fulfilled" /\ result.value # NoText THEN <<trimEnd(result.value)>>
    ELSE IF result.status = "rejected"
    THEN <<<<"#", " ", "E", "R", "R", "O", "R", ":", " ", "M", "e", "t", "r", "i", "c", "s", " ", "c", "o", "l", "l", "e", "c", "t", "i", "o", "n", " ", "f", "a", "i", "l", "e", "d", " ", "-", " ">> \o result.reason>>
    ELSE <<>>

\* collectMetrics: the text it resolves with
collectMetrics(prusaEnabled, bambuEnabled, prusaSection, inventorySection, bambuOutput) ==
    LET sections == (IF prusaEnabled THEN <<prusaSection>> ELSE <<>>) \o <<inventorySection>>
        RECURSIVE render(_)
        render(results) ==
            IF results = <<>> THEN <<>>
            ELSE RenderSection(Head(results)) \o render(Tail(results))
        output == render(sections)
                  \o (IF bambuEnabled /\ bambuOutput # NoText THEN <<trimEnd(bambuOutput)>>
                      ELSE <<>>)
    IN joinBlocks(output, <<"\n", "\n">>) \o <<"\n">>

\* process.env.METRICS_PRUSA_ENABLED / METRICS_BAMBU_ENABLED, "" when unset
EnvFlags == {"", "false", "true"}

\* texts a section resolves with: a block of two lines, with and without a
\* line break at its end
SectionTexts ==
    {<<"#", " ", "T", "\n", "m", " ", "1">>, <<"#", " ", "T", "\n", "m", " ", "1", "\n">>}

\* reasons a section rejects with: of one line and of two
Reasons == {<<"E", "r", "r", "o", "r", ":", " ", "d", "o", "w", "n">>, <<"E", "r", "r", ":", "\n", "d", "o", "w", "n">>}

Settlements(texts) ==
    {Fulfilled(text) : text \in texts} \cup {Rejected_(reason) : reason \in Reasons}

NoCollected ==
    [METRICS_PRUSA_ENABLED |-> "", METRICS_BAMBU_ENABLED |-> "", prusa |-> Fulfilled(NoText),
     inventory |-> Fulfilled(NoText), bambu |-> NoText, settled |-> "pending", text |-> NoText]

CollectFrame ==
    UNCHANGED <<rosterVars, connVars, poolVars, otherVars, BAMBU_BRIDGE_MOCK_SUCCESS,
                sendCall, delivered, afterShutdown, merged, metricsCache, reported>>

\* GET /metrics calls collectMetrics and the call settles
CollectMetricsCall ==
    /\ collected.settled = "pending"
    /\ collected' =
          [collected EXCEPT
              !.settled = "fulfilled",
              !.text = collectMetrics(collected.METRICS_PRUSA_ENABLED # "false",
                                      collected.METRICS_BAMBU_ENABLED # "false",
                                      collected.prusa, collected.inventory, collected.bambu)]
    /\ UNCHANGED exceptCollected
    /\ CollectFrame
\* ------------------------------------------------------------------------
\* bambuCollector.ts collectBambuMetrics: the samples of the text it returns
\* ------------------------------------------------------------------------
PRINTER_GAUGES ==
    {"nozzle_temperature", "nozzle_target_temperature", "bed_temperature",
     "bed_target_temperature", "chamber_temperature", "heatbreak_fan_speed",
     "cooling_fan_speed", "big_fan1_speed", "big_fan2_speed", "print_progress_percent",
     "print_remaining_time_minutes", "print_speed_magnitude", "print_speed_level",
     "print_error", "wifi_signal_dbm", "current_layer", "total_layers", "ams_status",
     "ams_rfid_status", "hardware_switch_state", "stage", "print_stage", "print_sub_stage",
     "gcode_file_prepare_percent", "queue_number", "queue_total",
     "queue_estimated_time_minutes", "queue_status", "mc_print_line_number",
     "nozzle_diameter_mm", "calibration_k", "fan_gear", "home_flag", "flag3",
     "calibration_version", "sdcard_present", "force_upgrade", "gcode_state", "print_type",
     "mess_production_state", "sequence_id", "msg", "ams_exist_bits", "tray_exist_bits",
     "tray_is_bbl_bits", "tray_target", "tray_current", "tray_previous", "tray_read_done_bits",
     "tray_reading_bits", "ams_version", "ams_insert_flag", "ams_power_on_flag", "ipcam_dev",
     "ipcam_record", "ipcam_timelapse", "ipcam_tutk_server", "ipcam_mode_bits",
     "lights_report_chamber_light_mode", "net_conf", "online_ahb", "online_rfid",
     "online_version", "upgrade_state_sequence_id", "upgrade_state_progress_percent",
     "upgrade_state_status", "upgrade_state_consistency_request", "upgrade_state_dis_state",
     "upgrade_state_err_code", "upgrade_state_force_upgrade", "upgrade_state_module",
     "upgrade_state_new_version_state", "upgrade_state_cur_state_code", "upgrade_state_idx2",
     "upload_progress_percent", "upload_status", "vt_tray_id", "vt_tray_remain", "vt_tray_k",
     "vt_tray_n", "vt_tray_cali_idx", "vt_tray_diameter_mm", "vt_tray_temp_celsius",
     "vt_tray_time_hours", "vt_tray_bed_temp_type", "vt_tray_bed_temp_celsius",
     "vt_tray_nozzle_temp_max_celsius", "vt_tray_nozzle_temp_min_celsius", "vt_tray_ctype"}

AMS_UNIT_GAUGES ==
    {"ams_humidity", "ams_humidity_raw", "ams_temp_celsius", "ams_dry_time_hours", "ams_info"}

AMS_TRAY_GAUGES ==
    {"ams_tray_id", "ams_tray_state", "ams_tray_remain", "ams_tray_k", "ams_tray_n",
     "ams_tray_cali_idx", "ams_tray_total_len", "ams_tray_diameter_mm",
     "ams_tray_temp_celsius", "ams_tray_time_hours", "ams_tray_bed_temp_type",
     "ams_tray_bed_temp_celsius", "ams_tray_nozzle_temp_max_celsius",
     "ams_tray_nozzle_temp_min_celsius", "ams_tray_ctype"}

\* the samples of the gauge blocks, each block a formatGauge of "bambulab_"
\* and the suffix; no block, and the text "", when the cache is empty
collectBambuMetrics(cache) ==
    LET amsIds == UNION {DOMAIN cache[s].store.amsUnit \cup DOMAIN cache[s].store.amsTray :
                            s \in DOMAIN cache}
        trayIds == UNION {UNION {DOMAIN cache[s].store.amsTray[amsId] :
                                    amsId \in DOMAIN cache[s].store.amsTray} :
                             s \in DOMAIN cache}
    IN {[name |-> "bambulab_" \o q[2], value |-> cache[q[1]].store.gauges[q[2]],
         printer |-> cache[q[1]].printerName, ams |-> NoText, tray |-> NoText] :
           q \in {r \in (DOMAIN cache) \X PRINTER_GAUGES :
                     r[2] \in DOMAIN cache[r[1]].store.gauges}}
       \cup {[name |-> "bambulab_" \o q[3], value |-> cache[q[1]].store.amsUnit[q[2]][q[3]],
              printer |-> cache[q[1]].printerName, ams |-> q[2], tray |-> NoText] :
                q \in {r \in (DOMAIN cache) \X amsIds \X AMS_UNIT_GAUGES :
                          /\ r[2] \in DOMAIN cache[r[1]].store.amsUnit
                          /\ r[3] \in DOMAIN cache[r[1]].store.amsUnit[r[2]]}}
       \cup {[name |-> "bambulab_" \o q[4],
              value |-> cache[q[1]].store.amsTray[q[2]][q[3]][q[4]],
              printer |-> cache[q[1]].printerName, ams |-> q[2], tray |-> q[3]] :
                q \in {r \in (DOMAIN cache) \X amsIds \X trayIds \X AMS_TRAY_GAUGES :
                          /\ r[2] \in DOMAIN cache[r[1]].store.amsTray
                          /\ r[3] \in DOMAIN cache[r[1]].store.amsTray[r[2]]
                          /\ r[4] \in DOMAIN cache[r[1]].store.amsTray[r[2]][r[3]]}}

\* reports a printer sends: a temperature; humidity and tray data of AMS unit 0
RetireMessages ==
    {[fields |-> <<>>,
      print |-> Object([NoReport EXCEPT !.fields = Fields(<<<<"nozzle_temper", Num(210)>>>>)])],
     [fields |-> <<>>,
      print |-> Object([NoReport EXCEPT !.ams = Object([fields |-> <<>>, ams |-> Array(<<
          MetricsUnit(Fields(<<<<"id", Str(<<"0">>)>>, <<"humidity", Str(<<"3">>)>>>>),
                      Array(<<Tray(Fields(<<<<"id", Str(<<"0">>)>>, <<"remain", Num(80)>>>>))>>))
          >>)])])]}

\* the printer behind pool client c sends a report and the message handler
\* calls the metrics listener, which initBambuMetricsListener registered
PoolReportToMetrics(c, msg) ==
    /\ c \in PoolClientIds
    /\ clients[c].connected
    /\ "metrics" \in listeners
    /\ LET serial == clients[c].serialNumber
       IN /\ metricsCache' = registeredListener(metricsCache, serial, pool[serial].printerName, msg)
          /\ reported' = [serialNumber |-> serial, msg |-> msg, before |-> metricsCache]
    /\ MetricsFrame
\* ------------------------------------------------------------------------
\* s3.ts: the connect handler of a pool client, with the callback of its
\* subscribe call as a step of its own
\* ------------------------------------------------------------------------
MaxConnects == 2

reportTopic(serialNumber) == <<"d", "e", "v", "i", "c", "e", "/">> \o serialNumber \o <<"/", "r", "e", "p", "o", "r", "t">>
requestTopic(serialNumber) == <<"d", "e", "v", "i", "c", "e", "/">> \o serialNumber \o <<"/", "r", "e", "q", "u", "e", "s", "t">>

\* the object pushallPayload is the JSON text of
pushallPayload == [pushing |-> [sequence_id |-> "0", command |-> "pushall"]]

NoPayload == [pushing |-> [sequence_id |-> "", command |-> ""]]

Event(call, topic, payload) == [call |-> call, topic |-> topic, payload |-> payload]

NoHandshake == [c \in ClientIds |-> [log |-> <<>>, pending |-> 0]]

Connects(c) == Cardinality({i \in 1..Len(handshake[c].log) : handshake[c].log[i].call = "connect"})

\* what the connect handler does on the client, in order
onConnect(serialNumber) ==
    <<Event("connect", NoText, NoPayload),
      Event("subscribe", reportTopic(serialNumber), NoPayload)>>

onSubscribed_publishAlways(serialNumber, err) ==
    <<Event(IF err THEN "subscribe failed" ELSE "subscribed", NoText, NoPayload),
      Event("publish", requestTopic(serialNumber), pushallPayload)>>

\* the callback given to client.subscribe
onSubscribed(serialNumber, err) ==
    IF err THEN <<Event("subscribe failed", NoText, NoPayload)>>
    ELSE <<Event("subscribed", NoText, NoPayload),
           Event("publish", requestTopic(serialNumber), pushallPayload)>>

\* client.on("connect"), first connect or reconnect
PoolConnectSubscribe(c) ==
    /\ c \in PoolClientIds
    /\ ~clients[c].connected
    /\ ~clients[c].ended
    /\ Connects(c) < MaxConnects
    /\ clients' = [clients EXCEPT ![c].connected = TRUE]
    /\ pool' = [s \in DOMAIN pool |->
                  IF pool[s].client = c THEN [pool[s] EXCEPT !.connecting = FALSE] ELSE pool[s]]
    /\ topics' = topics \cup {clients[c].serialNumber}
    /\ handshake' = [handshake EXCEPT ![c].log = @ \o onConnect(clients[c].serialNumber),
                                      ![c].pending = @ + 1]
    /\ UNCHANGED <<rosterVars, BAMBU_BRIDGE_MOCK_SUCCESS, sendCall, delivered, afterShutdown,
                   merged, metricsCache, reported, exceptHandshake, listeners,
                   syncIntervalHandle, leakedInterval, syncs, rosterSynced, monVars, printVars>>

\* the callback of the oldest subscribe call still waiting: the broker's
\* acknowledgement arrives over a connection, a failure is reported any time
PoolSubscribeCallback(c, err) ==
    /\ c \in PoolClientIds
    /\ handshake[c].pending > 0
    /\ ~err => clients[c].connected
    /\ handshake' = [handshake EXCEPT ![c].log = @ \o onSubscribed(clients[c].serialNumber, err),
                                      ![c].pending = @ - 1]
    /\ UNCHANGED <<rosterVars, BAMBU_BRIDGE_MOCK_SUCCESS, sendCall, delivered, afterShutdown,
                   merged, metricsCache, reported, exceptHandshake, connVars, poolVars,
                   otherVars>>

\* variant: the connection state of the client is not looked at
getPoolClient_everConnected(serial) ==
    IF serial \notin DOMAIN pool \/ pool[serial].connecting THEN None
    ELSE Some(pool[serial].client)

\* getPoolClient(serial): the MQTT client of the pool, None for null
getPoolClient(serial) ==
    IF serial \notin DOMAIN pool
          \/ pool[serial].connecting
          \/ ~clients[pool[serial].client].connected
    THEN None
    ELSE Some(pool[serial].client)

\* ------------------------------------------------------------------------
\* One sanitizeFilename call.  A text is the sequence of the UTF-16 code
\* units of the JavaScript string: the pattern has no u flag, so replace and
\* slice work unit by unit.
\* ------------------------------------------------------------------------
FileNameChars == {"a", "Z", "0", ".", "_", "-", " ", "/"}

ShortNames == UNION {[1..n -> FileNameChars] : n \in 0..2}

TailLengths == {0, 118, 119, 120, 121}

SanitizeInputs == {head \o Rep(ch, n) : head \in ShortNames, ch \in {"b", "#"}, n \in TailLengths}

NoSanitized == [name |-> NoText, result |-> None]

SanitizeCall ==
    /\ sanitized.result = None
    /\ sanitized' = [sanitized EXCEPT !.result = Some(sanitizeFilename(sanitized.name))]
    /\ UNCHANGED exceptSanitized
    /\ PrusaFrame

\* ------------------------------------------------------------------------
\* Initial state
\* ------------------------------------------------------------------------
InitPool ==
    /\ clients = <<>>
    /\ pool = <<>>
    /\ listeners = {}
    /\ syncIntervalHandle = FALSE
    /\ leakedInterval = FALSE
    /\ syncs = EmptyBag
    /\ rosterSynced = FALSE

InitMonitor ==
    /\ topics = {}
    /\ monitorCache = <<>>
    /\ timers = <<>>
    /\ idleFor = <<>>

\* the mock switch of dispatchToBambu is off unless a specification sets it
InitEnv == BAMBU_BRIDGE_MOCK_SUCCESS = ""

InitMore ==
    /\ prusa = NoPrusa
    /\ stateFlag = NoStateFlag
    /\ handshake = NoHandshake
    /\ sanitized = NoSanitized
    /\ collected = NoCollected
    /\ listenerInit = NoListenerInit

\* the parts of the program a specification does not exercise are at rest
InitExt ==
    /\ sendCall = NoSend
    /\ delivered = NoDelivery
    /\ afterShutdown = FALSE
    /\ merged = NoMerge
    /\ metricsCache = <<>>
    /\ reported = NoReported
    /\ InitMore

InitRouter ==
    /\ jobs = <<>>
    /\ rc = NoCall
    /\ dp = NoDispatch
    /\ bd = NoBambu
    /\ outcome = NoOutcome

\* ------------------------------------------------------------------------
\* Specification of the pool reconciliation: roster edits, sync, init, shutdown
\* ------------------------------------------------------------------------
Init ==
    /\ printers \in InitRosters
    /\ edits = 0
    /\ InitPool
    /\ InitMonitor
    /\ InitRouter
    /\ InitEnv
    /\ InitExt

RosterEdit ==
    \/ \E row \in RowValues : createPrinter(row)
    \/ \E i \in 1..Cardinality(IPs), row \in RowValues : updatePrinter(i, row)
    \/ \E i \in 1..Cardinality(IPs) : deletePrinter(i)

Next ==
    \/ RosterEdit
    \/ syncBambuMqttPool
    \/ initBambuMqttPool
    \/ SyncIntervalTick
    \/ \E call \in BagToSet(syncs) : SyncResume(call)
    \/ \E call \in BagToSet(syncs) : SyncCatch(call)
    \/ shutdownBambuMqttPool

Spec == Init /\ [][Next]_vars

\* ------------------------------------------------------------------------
\* Specification of the MQTT connections of one Bambu printer: the pool holds
\* its client, status queries drive the monitor, and the clients of both
\* deliver their events
\* ------------------------------------------------------------------------
MqttRosters ==
    {<<Row("BAMBU", IpOne, TokenA, SerialA)>>, <<Row("BAMBU", IpOne, TokenA, SerialBad)>>}

\* the server has started: initBambuMqttPool has reconciled the pool with the
\* roster and the sync interval runs
InitMqtt ==
    /\ printers \in MqttRosters
    /\ edits = 0
    /\ LET st == SyncBody([pool |-> <<>>, clients |-> <<>>, used |-> {}], BambuRoster(printers))
       IN pool = st.pool /\ clients = st.clients
    /\ listeners = {}
    /\ syncIntervalHandle = TRUE
    /\ leakedInterval = FALSE
    /\ syncs = EmptyBag
    /\ rosterSynced = TRUE
    /\ InitMonitor
    /\ InitRouter
    /\ InitEnv
    /\ InitExt

NextMqtt ==
    \/ \E c \in ClientIds : PoolClientConnect(c)
    \/ \E c \in ClientIds : PoolClientClose(c)
    \/ \E i \in 1..Cardinality(IPs) : getPrinterStatus(i)
    \/ \E c \in ClientIds : MonitorClientConnect(c)
    \/ \E c \in ClientIds, gcodeState \in GcodeStates : MonitorClientMessage(c, gcodeState)
    \/ \E c \in ClientIds : MonitorClientError(c)
    \/ \E c \in ClientIds : MonitorClientClose(c)
    \/ \E t \in DOMAIN timers : MonitorIdleTimeout(t)
    \/ TimePasses

SpecMqtt == InitMqtt /\ [][NextMqtt]_vars

\* ------------------------------------------------------------------------
\* Specification of the print router: the four dispatching procedures on a
\* fixed one-printer roster, with the printer answering each request
\* ------------------------------------------------------------------------
PrintRosters ==
    {<<Row("PRUSA", IpOne, TokenA, NoText)>>, <<Row("PRUSA", IpOne, NoText, NoText)>>,
     <<Row("BAMBU", IpTwo, TokenA, SerialA)>>, <<Row("BAMBU", IpTwo, TokenA, SerialBad)>>}

FileNames == {<<"a", " ", "b", ".", "g", "c", "o", "d", "e">>, <<"m", ".", "3", "m", "f">>}

InitPrint ==
    /\ printers \in PrintRosters
    /\ edits = 0
    /\ InitPool
    /\ InitMonitor
    /\ InitRouter
    /\ BAMBU_BRIDGE_MOCK_SUCCESS \in
          IF printers = <<Row("BAMBU", IpTwo, TokenA, SerialA)>> THEN {"", "1"} ELSE {""}
    /\ InitExt

NextPrint ==
    \/ \E ip \in IPs, fileName \in FileNames : uploadAndStore(ip, fileName)
    \/ \E j \in 1..MaxJobs, stored \in BOOLEAN : startStoredPrint(j, stored)
    \/ \E ip \in IPs, fileName \in FileNames : uploadAndPrint(ip, fileName)
    \/ \E j \in 1..MaxJobs, ip \in IPs, stored \in BOOLEAN : reprintJob(j, ip, stored)
    \/ DispatchSettled
    \/ \E answer \in StatusAnswers : PrusaStatusProbe(answer)
    \/ \E answer \in HttpAnswers : PrusaUploadAnswer(answer)
    \/ \E answer \in HttpAnswers : PrusaStartAnswer(answer)
    \/ \E answer \in PollAnswers : PrusaStatusPoll(answer)
    \/ \E written \in BOOLEAN : BambuTempFile(written)
    \/ \E code \in {0, 1, -1}, stderr \in {NoText, LongText} : BambuCurlExit(code, stderr)
    \/ DispatchClientConnect
    \/ \E failed \in BOOLEAN : DispatchPublished(failed)
    \/ DispatchClientError
    \/ DispatchTimeout
    \/ \E c \in ClientIds : MonitorClientConnect(c)
    \/ \E c \in ClientIds, gcodeState \in GcodeStates : MonitorClientMessage(c, gcodeState)

SpecPrint == InitPrint /\ [][NextPrint]_vars

\* ------------------------------------------------------------------------
\* Specification of sendPrintCommand: every ordering of the connect, close,
\* error, publish-callback and timer events of one call after another
\* ------------------------------------------------------------------------
InitSend ==
    /\ printers = <<>>
    /\ edits = 0
    /\ InitPool
    /\ InitMonitor
    /\ InitRouter
    /\ InitEnv
    /\ InitExt

NextSend ==
    \/ \E serialNumber \in {SerialA, SerialB} : sendPrintCommand(serialNumber)
    \/ SendClientConnect
    \/ SendClientClose
    \/ SendClientEnded
    \/ \E err \in BOOLEAN : SendPublishCallback(err)
    \/ SendClientError
    \/ SendTimeout

SpecSend == InitSend /\ [][NextSend]_vars

\* ------------------------------------------------------------------------
\* Specification of message delivery: the pool holds the printers of the
\* roster, listeners come and go, printers send payloads
\* ------------------------------------------------------------------------
ListenRosters ==
    {<<Row("BAMBU", IpOne, TokenA, SerialA)>>,
     <<Row("BAMBU", IpOne, TokenA, SerialA), Row("BAMBU", IpTwo, TokenA, SerialB)>>}

InitListen ==
    /\ printers \in ListenRosters
    /\ edits = 0
    /\ LET st == SyncBody([pool |-> <<>>, clients |-> <<>>, used |-> {}], BambuRoster(printers))
       IN pool = st.pool /\ clients = st.clients
    /\ listeners = {}
    /\ syncIntervalHandle = TRUE
    /\ leakedInterval = FALSE
    /\ syncs = EmptyBag
    /\ rosterSynced = TRUE
    /\ InitMonitor
    /\ InitRouter
    /\ InitEnv
    /\ InitExt

NextListen ==
    \/ \E listener \in Listeners : addMessageListener(listener)
    \/ \E listener \in Listeners : removeMessageListener(listener)
    \/ \E c \in ClientIds : PoolClientConnect(c)
    \/ \E c \in ClientIds : PoolClientClose(c)
    \/ \E c \in ClientIds, payload \in Payloads, throwers \in SUBSET Listeners :
          PoolClientMessage(c, payload, throwers)

SpecListen == InitListen /\ [][NextListen]_vars

\* ------------------------------------------------------------------------
\* Specification of the status merge: one cached status takes report after
\* report
\* ------------------------------------------------------------------------
NextMerge ==
    \/ \E report \in Reports : MergeReport(report)
    \/ MergeNewEntry

SpecMerge == InitSend /\ [][NextMerge]_vars

\* ------------------------------------------------------------------------
\* Specification of the metrics collector: the listener takes message after
\* message
\* ------------------------------------------------------------------------
NextMetrics ==
    \/ \E serialNumber \in {SerialA}, printerName \in PrinterNames, msg \in Messages :
          MetricsMessage(serialNumber, printerName, msg)
    \/ shutdownBambuMetricsListener

SpecMetrics == InitSend /\ [][NextMetrics]_vars

\* ------------------------------------------------------------------------
\* Specification of the tray inventory: a new entry takes its first report
\* ------------------------------------------------------------------------
InitTrays ==
    /\ printers = <<>>
    /\ edits = 0
    /\ InitPool
    /\ InitMonitor
    /\ InitRouter
    /\ InitEnv
    /\ sendCall = NoSend
    /\ delivered = NoDelivery
    /\ afterShutdown = FALSE
    /\ merged \in {[NoMerge EXCEPT !.report = report] : report \in TrayReports}
    /\ metricsCache = <<>>
    /\ reported = NoReported
    /\ InitMore

NextTrays == MergeFirstReport

SpecTrays == InitTrays /\ [][NextTrays]_vars

\* ------------------------------------------------------------------------
\* Specification of the state flag: getStateFlag applied to the flags of one
\* /api/printer answer
\* ------------------------------------------------------------------------
InitFlags ==
    /\ printers = <<>>
    /\ edits = 0
    /\ InitPool
    /\ InitMonitor
    /\ InitRouter
    /\ InitEnv
    /\ sendCall = NoSend
    /\ delivered = NoDelivery
    /\ afterShutdown = FALSE
    /\ merged = NoMerge
    /\ metricsCache = <<>>
    /\ reported = NoReported
    /\ prusa = NoPrusa
    /\ collected = NoCollected
    /\ handshake = NoHandshake
    /\ listenerInit = NoListenerInit
    /\ sanitized = NoSanitized
    /\ stateFlag \in {[NoStateFlag EXCEPT !.printer = printer] : printer \in PrinterAnswers}

NextFlags == StateFlagCall

SpecFlags == InitFlags /\ [][NextFlags]_vars

\* ------------------------------------------------------------------------
\* Specification of the Prusa collector: run after run, the answers of the
\* printers arriving in any order
\* ------------------------------------------------------------------------
NextPrusa ==
    \/ \E found \in PrusaRosters, rosterRead \in BOOLEAN :
          collectPrusaMetrics(found, rosterRead)
    \/ \E i \in 1..Len(prusa.scrapes) :
          \E answer \in RequiredAnswers(prusa.scrapes[i].pc) : ScrapeRequiredAnswer(i, answer)
    \/ \E i \in 1..Len(prusa.scrapes) :
          \E status \in Answers(StatusBodies), info \in Answers(InfoBodies) :
             ScrapeOptionalAnswers(i, status, info)
    \/ PrusaAllSettled

InitPrusa ==
    /\ printers = <<>>
    /\ edits = 0
    /\ InitPool
    /\ InitMonitor
    /\ InitRouter
    /\ InitEnv
    /\ sendCall = NoSend
    /\ delivered = NoDelivery
    /\ afterShutdown = FALSE
    /\ merged = NoMerge
    /\ metricsCache = <<>>
    /\ reported = NoReported
    /\ prusa \in {[NoPrusa EXCEPT !.printerModelCache = cache] : cache \in PrusaCaches}
    /\ stateFlag = NoStateFlag
    /\ collected = NoCollected
    /\ handshake = NoHandshake
    /\ listenerInit = NoListenerInit
    /\ sanitized = NoSanitized

SpecPrusa == InitPrusa /\ [][NextPrusa]_vars

\* ------------------------------------------------------------------------
\* Specification of the metrics response: collectMetrics applied to what its
\* sections settle with
\* ------------------------------------------------------------------------
InitCollect ==
    /\ printers = <<>>
    /\ edits = 0
    /\ InitPool
    /\ InitMonitor
    /\ InitRouter
    /\ InitEnv
    /\ sendCall = NoSend
    /\ delivered = NoDelivery
    /\ afterShutdown = FALSE
    /\ merged = NoMerge
    /\ metricsCache = <<>>
    /\ reported = NoReported
    /\ prusa = NoPrusa
    /\ stateFlag = NoStateFlag
    /\ handshake = NoHandshake
    /\ listenerInit = NoListenerInit
    /\ sanitized = NoSanitized
    /\ collected \in
          {[NoCollected EXCEPT !.METRICS_PRUSA_ENABLED = prusaFlag,
                               !.METRICS_BAMBU_ENABLED = bambuFlag,
                               !.prusa = prusaSection, !.inventory = inventorySection,
                               !.bambu = bambuOutput] :
              prusaFlag \in EnvFlags, bambuFlag \in EnvFlags,
              prusaSection \in Settlements(SectionTexts \cup {NoText}),
              inventorySection \in Settlements(SectionTexts),
              bambuOutput \in SectionTexts \cup {NoText}}

NextCollect == CollectMetricsCall

SpecCollect == InitCollect /\ [][NextCollect]_vars

\* ------------------------------------------------------------------------
\* Specification of a printer leaving the roster: the pool holds the printers
\* of the roster and feeds the metrics listener, a printer is deleted, the
\* pool is synced
\* ------------------------------------------------------------------------
InitRetire ==
    /\ printers \in ListenRosters
    /\ edits = 0
    /\ LET st == SyncBody([pool |-> <<>>, clients |-> <<>>, used |-> {}], BambuRoster(printers))
       IN pool = st.pool /\ clients = st.clients
    /\ listeners = {"metrics"}
    /\ syncIntervalHandle = TRUE
    /\ leakedInterval = FALSE
    /\ syncs = EmptyBag
    /\ rosterSynced = TRUE
    /\ InitMonitor
    /\ InitRouter
    /\ InitEnv
    /\ InitExt

NextRetire ==
    \/ \E i \in 1..Cardinality(IPs) : deletePrinter(i)
    \/ SyncIntervalTick
    \/ \E call \in BagToSet(syncs) : SyncResume(call)
    \/ \E call \in BagToSet(syncs) : SyncCatch(call)
    \/ \E c \in DOMAIN clients : PoolClientConnect(c)
    \/ \E c \in DOMAIN clients, msg \in RetireMessages : PoolReportToMetrics(c, msg)

SpecRetire == InitRetire /\ [][NextRetire]_vars


\* ------------------------------------------------------------------------
\* Specification of the pool handshake: the clients of a synced pool connect,
\* lose the connection and reconnect, the subscribe callbacks arriving in
\* between
\* ------------------------------------------------------------------------
NextHandshake ==
    \/ \E c \in ClientIds : PoolConnectSubscribe(c)
    \/ \E c \in ClientIds, err \in BOOLEAN : PoolSubscribeCallback(c, err)
    \/ \E c \in ClientIds : PoolClientClose(c)

SpecHandshake == InitListen /\ [][NextHandshake]_vars

\* ------------------------------------------------------------------------
\* Specification of sanitizeFilename: one call on any of the file names
\* ------------------------------------------------------------------------
InitSanitize ==
    /\ printers = <<>>
    /\ edits = 0
    /\ InitPool
    /\ InitMonitor
    /\ InitRouter
    /\ InitEnv
    /\ sendCall = NoSend
    /\ delivered = NoDelivery
    /\ afterShutdown = FALSE
    /\ merged = NoMerge
    /\ metricsCache = <<>>
    /\ reported = NoReported
    /\ prusa = NoPrusa
    /\ stateFlag = NoStateFlag
    /\ collected = NoCollected
    /\ handshake = NoHandshake
    /\ listenerInit = NoListenerInit
    /\ sanitized \in {[NoSanitized EXCEPT !.name = name] : name \in SanitizeInputs}

NextSanitize == SanitizeCall

SpecSanitize == InitSanitize /\ [][NextSanitize]_vars

\* ------------------------------------------------------------------------
\* Specification of the model cache: run after run of the collector on one
\* printer, from an empty cache
\* ------------------------------------------------------------------------
InitModelCache ==
    /\ printers = <<>>
    /\ edits = 0
    /\ InitPool
    /\ InitMonitor
    /\ InitRouter
    /\ InitEnv
    /\ InitExt

NextModelCache ==
    \/ collectPrusaMetrics(<<PrusaOne>>, TRUE)
    \/ \E i \in 1..Len(prusa.scrapes) :
          \E answer \in RequiredAnswers(prusa.scrapes[i].pc) : ScrapeRequiredAnswer(i, answer)
    \/ \E i \in 1..Len(prusa.scrapes) :
          \E status \in Answers(StatusBodies), info \in Answers(InfoBodies) :
             ScrapeOptionalAnswers(i, status, info)
    \/ PrusaAllSettled
    \/ PrusaResponded

SpecModelCache == InitModelCache /\ [][NextModelCache]_vars

\* ------------------------------------------------------------------------
\* Specification of the listener registration: the pool and the metrics
\* listener are started and shut down in any order
\* ------------------------------------------------------------------------
NextListenerInit ==
    \/ initBambuMetricsListener
    \/ shutdownBambuMetricsListener
    \/ initBambuMqttPool
    \/ SyncIntervalTick
    \/ \E call \in BagToSet(syncs) : SyncResume(call)
    \/ \E call \in BagToSet(syncs) : SyncCatch(call)
    \/ shutdownBambuMqttPool

SpecListenerInit == Init /\ [][NextListenerInit]_vars
\* ------------------------------------------------------------------------
\* Properties of the pool
\* ------------------------------------------------------------------------
LivePoolClients(serial) == {c \in PoolClientIds : clients[c].serialNumber = serial}

\* C1: in every reachable state of any interleaving of sync, init and
\* shutdown calls, every serial number has at most one pool entry and at
\* most one pool client that was created and not yet ended (and that
\* client is the one its entry holds).
C1_OneClientPerSerial ==
    /\ \A s \in Serials : Cardinality(LivePoolClients(s)) <= 1
    /\ \A c \in PoolClientIds :
          /\ clients[c].serialNumber \in DOMAIN pool
          /\ pool[clients[c].serialNumber].client = c
    /\ \A s \in DOMAIN pool : pool[s].client \in PoolClientIds

\* two printers are pooled after reconnects while another sync is suspended
C1_Witness ==
    /\ BagCardinality(syncs) >= 1
    /\ Cardinality(PoolClientIds) = 2
    /\ \E s \in DOMAIN pool : pool[s].client > 2

\* A completed sync step of a call
Completes(call) == call.ok /\ BagIn(call, syncs) /\ syncs' = syncs (-) SetToBag({call})

\* C5 (as claimed): when a sync has run to completion and a second sync runs
\* with the roster unchanged, the second run creates no connection and ends
\* none, so every pool entry keeps its client handle, IP and credential.
C5_SecondSyncChangesNothing ==
    [][\A call \in BagToSet(syncs) :
          (Completes(call) /\ rosterSynced /\ call.rows = BambuRoster(printers))
              => (pool' = pool /\ clients' = clients)]_vars

ValidRows(rows) ==
    {j \in 1..Len(rows) : rows[j].authToken # NoText /\ rows[j].serialNumber # NoText}

LastRowOf(rows, serial) ==
    LET idx == {j \in ValidRows(rows) : rows[j].serialNumber = serial}
    IN rows[CHOOSE j \in idx : \A k \in idx : k <= j]

PoolMatches(rows) ==
    /\ DOMAIN pool = dbSerials(rows)
    /\ \A s \in DOMAIN pool :
          /\ pool[s].ipAddress = LastRowOf(rows, s).ipAddress
          /\ pool[s].authToken = LastRowOf(rows, s).authToken
    /\ \A c \in PoolClientIds : clients[c].serialNumber \in dbSerials(rows)

\* C6: when a sync call completes after a successful roster read, the pool
\* keys are exactly the serial numbers of the roster rows that carry both a
\* credential and a serial number, every entry has the IP and credential of
\* its (last) roster row, and no client of a serial outside the roster is
\* left alive.
C6_SyncReconciles ==
    [][\A call \in BagToSet(syncs) : Completes(call) => PoolMatches(call.rows)']_vars

\* a sync has ended the client of a printer that left the roster and kept
\* the client of the printer that stayed
C6_Witness ==
    /\ rosterSynced
    /\ edits = 1
    /\ printers = <<Row("BAMBU", IpTwo, TokenA, SerialB)>>
    /\ DOMAIN pool = {SerialB}
    /\ pool[SerialB].client = 2
    /\ DOMAIN clients = {2}

\* ------------------------------------------------------------------------
\* Properties of the print router
\* ------------------------------------------------------------------------
Finished == rc.proc = "none" /\ outcome.dispatched

\* C2 (as claimed): once a procedure that called dispatchToPrinter for a job
\* has returned or thrown, the status of that job is DISPATCHED or
\* DISPATCH_FAILED and not STORED, whatever the mode.
C2_NeverLeftStored ==
    Finished => jobs[outcome.job].status \in {"DISPATCHED", "DISPATCH_FAILED"}

\* C2 (amended): once the procedure has returned or thrown, the job is
\* DISPATCH_FAILED when the dispatch threw; when it returned, the job is
\* DISPATCHED after startStoredPrint, uploadAndPrint and reprintJob, and
\* STORED after uploadAndStore (whose dispatch only uploads).
C2_StatusAfterDispatch ==
    Finished =>
        jobs[outcome.job].status =
            IF outcome.result # "ok" THEN "DISPATCH_FAILED"
            ELSE IF outcome.proc = "uploadAndStore" THEN "STORED"
            ELSE "DISPATCHED"

\* uploadAndStore has returned after a successful upload-only dispatch
C2_Witness ==
    /\ Finished
    /\ outcome.proc = "uploadAndStore"
    /\ outcome.result = "ok"
    /\ jobs[outcome.job].status = "STORED"

\* C3 (as claimed): the status of a job record only changes from STORED; a
\* record that is DISPATCHED or DISPATCH_FAILED never changes status again.
C3_TerminalStatusIsFinal ==
    [][\A j \in 1..Len(jobs) :
          jobs[j].status # "STORED" => jobs'[j].status = jobs[j].status]_vars

\* ------------------------------------------------------------------------
\* Properties of the Prusa dispatch
\* ------------------------------------------------------------------------
C7_Success(status) == status \in 200..299 \/ status = 409

C7_Advance(method, status) ==
    \/ status \in {404, 410, 403}
    \/ method = "PUT" /\ (status \in {405, 408, 415, 422} \/ status >= 500)

\* the dispatch goes from d to e by answering the upload request with answer
C7_Answered(answer) ==
    /\ dp.pc = "upload"
    /\ answer.status # 0
    /\ SameFailureText(answer)
    /\ dp' # dp
    /\ dp' = prusaUploaded(dp, answer)

\* C7: the HTTP status of the answer to an upload candidate decides the next
\* step: 2xx or 409 ends the upload phase with success (the dispatch goes on
\* to the start attempts or returns); 404, 410 or 403 (and, for a PUT
\* candidate only, 405, 408, 415, 422 or 5xx) moves on to the next candidate,
\* or fails when there is none left; every other status makes the dispatch
\* throw at that candidate, so that no further upload request is sent.
C7_UploadDecision ==
    [][\A answer \in HttpAnswers :
          C7_Answered(answer) =>
              LET candidates == uploadEndpointCandidates(dp.prusaStorageName)
                  method == candidates[dp.candidate].method
              IN IF C7_Success(answer.status)
                 THEN dp'.pc \in {"start", "returned"}
                 ELSE IF C7_Advance(method, answer.status)
                 THEN IF dp.candidate < Len(candidates)
                      THEN dp'.pc = "upload" /\ dp'.candidate = dp.candidate + 1
                      ELSE dp'.pc = "threw"
                 ELSE /\ dp'.pc = "threw"
                      /\ dp'.error.code = "BAD_REQUEST"
                      /\ dp'.candidate = dp.candidate]_vars

\* a POST candidate (the second one) was reached and the dispatch threw there
\* without having tried a third
C7_Witness ==
    /\ dp.pc = "threw"
    /\ dp.candidate = 2
    /\ dp.attemptErrors = 2
    /\ dp.sent = {"upload"}

C8_Expected(message) ==
    LET kept == SelectSeq(message, LAMBDA ch : ch # NUL)
    IN [i \in 1..Min(Len(kept), 4000) |-> kept[i]]

\* C8: when dispatchToPrinter threw inside one of the four procedures, the
\* job is DISPATCH_FAILED, its dispatchError is non-empty and is the error
\* message without its null bytes, cut to 4000 characters, and the caller
\* gets a BAD_REQUEST whose message ends with that same text.
C8_FailureIsRecorded ==
    (Finished /\ outcome.result # "ok") =>
        /\ jobs[outcome.job].status = "DISPATCH_FAILED"
        /\ outcome.dispatchError # NoText
        /\ outcome.dispatchError = C8_Expected(outcome.thrown)
        /\ outcome.result = "BAD_REQUEST"
        /\ Len(outcome.message) > Len(outcome.dispatchError)
        /\ endsWith(outcome.message, outcome.dispatchError)

\* a message longer than 4000 characters that holds a null byte was recorded
C8_Witness ==
    /\ Finished
    /\ outcome.result = "BAD_REQUEST"
    /\ Len(outcome.thrown) > 4000
    /\ NUL \in Range(outcome.thrown)
    /\ Len(outcome.dispatchError) = 4000

C10_Blocked(state) ==
    \E name \in {<<"p", "r", "i", "n", "t", "i", "n", "g">>, <<"p", "a", "u", "s", "e", "d">>,
                 <<"b", "u", "s", "y">>, <<"a", "t", "t", "e", "n", "t", "i", "o", "n">>} :
        toLowerCase(state) = name

\* C10: a Prusa dispatch whose status probe reported PRINTING, PAUSED, BUSY or
\* ATTENTION (in any letter case) has thrown BAD_REQUEST and has sent no
\* upload request and no start request, in every mode.
C10_BusyPrinterIsRefused ==
    (dp.pc # "idle" /\ dp.printer.type = "PRUSA" /\ C10_Blocked(dp.initialPrinterState)) =>
        /\ dp.pc = "threw"
        /\ dp.error.code = "BAD_REQUEST"
        /\ dp.sent = {}

\* startStoredPrint was refused for a printer that reported "printing"
C10_Witness ==
    /\ dp.pc = "threw"
    /\ dp.mode = "start_only"
    /\ dp.initialPrinterState = <<"p", "r", "i", "n", "t", "i", "n", "g">>
    /\ dp.sent = {}

\* ------------------------------------------------------------------------
\* Properties of the MQTT connections
\* ------------------------------------------------------------------------
OpenConnections(ip) == {c \in DOMAIN clients : clients[c].ipAddress = ip /\ ~clients[c].ended}

\* C4 (as claimed): the process has at most one open MQTT connection to a
\* Bambu printer at any time; status queries and the print-start command use
\* the client of the pool and open none of their own.
C4_OneConnectionPerPrinter ==
    \A ip \in IPs :
        /\ Cardinality(OpenConnections(ip)) <= 1
        /\ \A c \in OpenConnections(ip) : clients[c].kind = "pool"

\* C9 (as claimed): every topic subscribed or published to is built from a
\* serial number that matches ^[A-Za-z0-9]{1,30}$.
C9_TopicsFromValidSerials == \A serial \in topics : SERIAL_NUMBER_RE(serial)


\* ------------------------------------------------------------------------
\* Properties of the Prusa start phase
\* ------------------------------------------------------------------------
\* C11: when the upload loop of a Prusa dispatch ends and the start phase
\* begins, every candidate before the current one has answered with a
\* failure, and the storage the start requests are built from is the storage
\* of the current candidate, the first one that answered 2xx or 409; the
\* start requests keep that storage for as long as the start phase lasts.
C11_StartUsesFirstAcceptedStorage ==
    [][/\ (dp.pc = "upload" /\ dp'.pc = "start") =>
            /\ dp.attemptErrors = dp.candidate - 1
            /\ dp'.resolvedStorageForStart =
                   uploadEndpointCandidates(dp.prusaStorageName)[dp.candidate].storage
       /\ (dp.pc = "start" /\ dp'.pc = "start") =>
            startAttempts(dp'.resolvedStorageForStart) = startAttempts(dp.resolvedStorageForStart)
      ]_vars

\* an upload candidate of storage "usb" was accepted by an idle printer and
\* the start phase has begun with that storage
C11_Witness ==
    /\ dp.pc = "start"
    /\ dp.mode = "upload_and_start"
    /\ dp.resolvedStorageForStart = <<"u", "s", "b">>
    /\ dp.initialPrinterState = <<"I", "D", "L", "E">>

\* ------------------------------------------------------------------------
\* Properties of dispatchToBambu
\* ------------------------------------------------------------------------
\* the FTPS upload has failed: writeFile rejected, curl did not start or
\* exited with a code other than 0
C12_UploadFailed == bd.pc \in {"writeFile", "curl"} /\ bd'.pc = "idle"

\* dispatchToBambu has returned ok=true to dispatchToPrinter
C12_ReturnedOk == dp'.printer.type = "BAMBU" /\ dp'.pc = "returned" /\ dp.pc # "returned"

\* the publish is issued only after curl exited with code 0, and a failed
\* upload opens no MQTT connection and ends with ok=false
C12_PublishAfterUpload ==
    /\ (bd'.pc = "publish" /\ bd.pc # "publish") => "uploaded" \in bd.effects
    /\ C12_UploadFailed =>
          (dp'.pc = "threw" /\ clients' = clients /\ "mqtt" \notin bd.effects)

\* C12 (as claimed): the publish comes only after an upload that ended with
\* curl exit code 0, a failed upload opens no MQTT connection and gives
\* ok=false, and ok=true is returned only when the upload and the publish
\* have both succeeded.
C12_OkOnlyAfterUploadAndPublish ==
    [][/\ C12_PublishAfterUpload
       /\ C12_ReturnedOk => (bd.pc = "publish" /\ "uploaded" \in bd.effects)]_vars

\* C12 (amended): as claimed while BAMBU_BRIDGE_MOCK_SUCCESS is not "1";
\* with the switch set to "1" dispatchToBambu returns ok=true at once, with
\* no temp file, no curl process and no MQTT connection.
C12_OkAfterUploadAndPublishUnlessMocked ==
    [][/\ C12_PublishAfterUpload
       /\ (C12_ReturnedOk /\ BAMBU_BRIDGE_MOCK_SUCCESS # "1") =>
             (bd.pc = "publish" /\ "uploaded" \in bd.effects)
       /\ (C12_ReturnedOk /\ BAMBU_BRIDGE_MOCK_SUCCESS = "1") =>
             (/\ dp.pc = "idle" /\ bd = NoBambu /\ bd' = NoBambu
              /\ \A c \in DOMAIN clients' : clients'[c].kind # "dispatch")]_vars

\* a Bambu dispatch has returned after a real upload and publish
C12_Witness ==
    /\ dp.pc = "returned"
    /\ dp.printer.type = "BAMBU"
    /\ BAMBU_BRIDGE_MOCK_SUCCESS = ""

\* ------------------------------------------------------------------------
\* Properties of sendPrintCommand
\* ------------------------------------------------------------------------
C13_Settled(s) ==
    /\ s.timer \in {"cleared", "fired"} => s.promise \in {"resolved", "rejected"}
    /\ (s.promise = "rejected" /\ s.by \in {"timeout", "error"}) =>
          (s.client = "ended" /\ s.forced)
    /\ ~s.publishedAfterReject

\* C13: for every ordering of the connect, error, publish-callback and
\* timer events the promise is settled by the time the 15 s timer has fired
\* or was cleared, once settled it never changes, a promise rejected by the
\* timer or by an error event has a force-closed client, and no publish is
\* made after the promise was rejected.
C13_SettlesOnceInTime ==
    [][/\ C13_Settled(sendCall')
       /\ (sendCall.promise \in {"resolved", "rejected"} /\ sendCall'.promise # "pending") =>
             (sendCall'.promise = sendCall.promise /\ sendCall'.by = sendCall.by)]_vars

\* the client connected twice and published twice, no publish callback has
\* run, and the timer has rejected the promise
C13_Witness ==
    /\ sendCall.publishes = 2
    /\ sendCall.callbacks = 0
    /\ sendCall.promise = "rejected"
    /\ sendCall.by = "timeout"

\* ------------------------------------------------------------------------
\* Properties of message delivery
\* ------------------------------------------------------------------------
C14_CallsOf(d, listener) == {i \in 1..Len(d.calls) : d.calls[i].listener = listener}

C14_Delivered(d) ==
    (d.client # 0 /\ d.payload.wellFormed) =>
        /\ \A listener \in d.registered : Cardinality(C14_CallsOf(d, listener)) = 1
        /\ \A i \in 1..Len(d.calls) :
              /\ d.calls[i].listener \in d.registered
              /\ d.calls[i].serialNumber = clients[d.client].serialNumber
              /\ d.calls[i].printerName = pool[clients[d.client].serialNumber].printerName
              /\ d.calls[i].msg = d.payload.value

\* C14: for a well-formed payload of a pool client every listener
\* registered at that moment is called exactly once, with the serial
\* number, the printer name and the parsed message, whichever listeners
\* throw; handling a payload, well-formed or not, with or without a
\* throwing listener, leaves the pool, its clients and the listener set as
\* they were, so later payloads are handled in the same way.
C14_EveryListenerOnce ==
    [][delivered' # delivered =>
          /\ C14_Delivered(delivered')
          /\ pool' = pool /\ clients' = clients /\ listeners' = listeners]_vars

\* a later payload was delivered to both listeners although both throw
C14_Witness ==
    /\ delivered.toggle = 0
    /\ delivered.throwers = Listeners
    /\ delivered.client # 0
    /\ delivered.registered = Listeners
    /\ delivered.payload.wellFormed
    /\ Len(delivered.calls) = 2

\* C15 (as claimed): once shutdownBambuMqttPool has returned, and until
\* initBambuMqttPool or syncBambuMqttPool is called again, the pool is empty,
\* no pool client is live, the listener set is empty and no periodic sync is
\* scheduled; a sync that was suspended at its roster read when the shutdown
\* ran is included.
C15_QuietAfterShutdown ==
    afterShutdown =>
        /\ DOMAIN pool = {}
        /\ PoolClientIds = {}
        /\ listeners = {}
        /\ ~syncIntervalHandle

\* the idle timeout t fires and its cleanupMonitor removes the cached entry
\* of the serial and ends the client of that entry
IdleTimeoutRemoves(t) ==
    /\ timers[t] >= BAMBU_MONITOR_IDLE_MS
    /\ t \notin DOMAIN timers'
    /\ t[2] \in DOMAIN monitorCache
    /\ t[2] \notin DOMAIN monitorCache'
    /\ clients'[monitorCache[t[2]].client].ended

\* C16 (as claimed): while getBambuStatus calls for a serial arrive less than
\* BAMBU_MONITOR_IDLE_MS apart, no idle timeout removes the cached entry of
\* that serial or ends its client; an entry created after an earlier entry of
\* the serial was removed by a close or error event is included.
C16_IdleTimerSparesQueriedEntry ==
    [][\A t \in DOMAIN timers :
          IdleTimeoutRemoves(t) => idleFor[t[2]] >= BAMBU_MONITOR_IDLE_MS]_vars

\* every timeout that is due has fired
NoTimeoutDue == \A t \in DOMAIN timers : timers[t] < BAMBU_MONITOR_IDLE_MS

\* C17 (as claimed): a client created by connectBambuMonitor that was not
\* ended has its entry in the cache, and its serial was queried by
\* getBambuStatus less than BAMBU_MONITOR_IDLE_MS ago or a timeout that is due
\* is about to fire, whatever connect, close and error events occurred.
C17_IdleMonitorClientsEnded ==
    \A c \in MonitorClientIds :
        ~clients[c].ended =>
            /\ EntryOf(c) # {}
            /\ idleFor[clients[c].serialNumber] < BAMBU_MONITOR_IDLE_MS \/ ~NoTimeoutDue

\* the fields of a status that hold a number or null, with the key of each
NumberFields ==
    {<<"nozzleTemp", "nozzle_temper">>, <<"targetNozzleTemp", "nozzle_target_temper">>,
     <<"bedTemp", "bed_temper">>, <<"targetBedTemp", "bed_target_temper">>,
     <<"chamberTemp", "chamber_temper">>, <<"progress", "mc_percent">>,
     <<"remainingTimeMinutes", "mc_remaining_time">>, <<"layerNum", "layer_num">>,
     <<"totalLayerNum", "total_layer_num">>}

Carries(report, key) == key \in DOMAIN report.fields

TrayIds(trays) == {trays[i].trayId : i \in 1..Len(trays)}

\* the global tray ids the ams array of a report lists
ListedTrayIds(report) ==
    IF report.ams.t = "object" THEN TrayIds(ParseAmsUnits(report.ams.o.ams.a)) ELSE {}

\* the units the ams array of a report lists
ListedUnits(report) == {id \div 4 : id \in ListedTrayIds(report)}

\* C18, scalar part: a scalar field the report does not carry keeps its value
C18_ScalarsKept ==
    /\ \A f \in NumberFields :
          ~Carries(merged.report, f[2]) => merged.after[f[1]] = merged.before[f[1]]
    /\ ~Carries(merged.report, "gcode_state") => merged.after.gcodeState = merged.before.gcodeState
    /\ ~Carries(merged.report, "subtask_name") => merged.after.fileName = merged.before.fileName

\* C18, tray part: a cached tray of an AMS unit the report does not list stays
C18_UnlistedUnitsKept ==
    \A i \in 1..Len(merged.before.amsTrays) :
        LET tray == merged.before.amsTrays[i] IN
        (tray.trayId # 254 /\ (tray.trayId \div 4) \notin ListedUnits(merged.report))
            => tray \in Range(merged.after.amsTrays)

\* C18, external tray part: tray 254 stays when the report has no vt_tray
C18_ExternalTrayKept ==
    (254 \in TrayIds(merged.before.amsTrays) /\ merged.report.vt_tray.t # "object")
        => 254 \in TrayIds(merged.after.amsTrays)

\* C18, name part: a known fileName or filamentType is never reset to null
C18_NamesKept ==
    /\ merged.before.fileName # None => merged.after.fileName # None
    /\ merged.before.filamentType # None => merged.after.filamentType \notin {None, Some(NoText)}

\* C18 (as claimed): mergeReportIntoStatus leaves unchanged every field of the
\* cached status the report does not carry: absent scalar fields keep their
\* value, trays of AMS units the report does not list stay in amsTrays, the
\* external tray 254 stays when the report has no vt_tray, and a known
\* fileName or filamentType is never reset to null or empty.
C18_MergeKeepsWhatReportLacks ==
    C18_ScalarsKept /\ C18_UnlistedUnitsKept /\ C18_ExternalTrayKept /\ C18_NamesKept

\* the tray_now of the merged report as text, None when it carries none
TrayNowOf(report) ==
    IF report.ams.t = "object" /\ Field(report.ams.o, "tray_now").t = "string"
    THEN Some(Field(report.ams.o, "tray_now").s) ELSE None

\* the tray_type the ams array of the report gives for unit and slot, NoText
\* when it lists no such tray or the tray has no tray_type
TypeAt(report, unit, slot) ==
    LET units == report.ams.o.ams.a
        at == {<<u, t>> \in (1..Len(units)) \X (1..4) :
                  /\ Field(units[u], "id") = Str(String(unit))
                  /\ t <= Len(units[u].tray.a)
                  /\ Field(units[u].tray.a[t], "id") = Str(String(slot))}
    IN IF at = {} THEN NoText
       ELSE LET p == CHOOSE p \in at : TRUE
                tray_type == Field(units[p[1]].tray.a[p[2]], "tray_type")
            IN IF tray_type.t = "string" THEN tray_type.s ELSE NoText

\* the tray_type of the vt_tray of the report, NoText when it has none
VtTypeOf(report) ==
    IF report.vt_tray.t = "object" /\ Field(report.vt_tray.o, "tray_type").t = "string"
    THEN Field(report.vt_tray.o, "tray_type").s ELSE NoText

\* the filament type the claim gives for a report that carries tray_now
\* and, for an AMS pointer, the ams array
ChosenType(report) ==
    LET trayNow == TrayNowOf(report)[1] IN
    IF trayNow \in {<<"2", "5", "4">>, <<"2", "5", "5">>} THEN VtTypeOf(report)
    ELSE LET n == parseInt(trayNow).n IN TypeAt(report, n \div 4, n % 4)

StoreOf(cache, serialNumber) ==
    IF serialNumber \in DOMAIN cache THEN cache[serialNumber].store ELSE createEmptyStore

\* the gauges whose key the object carries, by a table of whitelisted keys
Whitelisted(object, table) == {row[2] : row \in {r \in table : r[1] \in DOMAIN object.fields}}

\* the print object of a message, NoReport when print is no object
PrintOf(msg) == IF msg.print.t = "object" THEN msg.print.o ELSE NoReport

\* the units of the ams array of a print object, by their index as text
UnitsOf(report) ==
    IF report.ams.t = "object" /\ report.ams.o.ams.t = "array"
    THEN [amsId \in {String(i - 1) : i \in 1..Len(report.ams.o.ams.a)} |->
             report.ams.o.ams.a[(CHOOSE i \in 1..Len(report.ams.o.ams.a) : String(i - 1) = amsId)]]
    ELSE <<>>

\* the trays of a unit, by their index as text
TraysOf(unit) ==
    IF unit.tray.t = "array"
    THEN [trayId \in {String(i - 1) : i \in 1..Len(unit.tray.a)} |->
             unit.tray.a[(CHOOSE i \in 1..Len(unit.tray.a) : String(i - 1) = trayId)]]
    ELSE <<>>

\* the printer-level gauges a print object contains the field of
PrinterGaugesIn(report) ==
    Whitelisted(report, printGauges)
    \cup (IF report.ams.t = "object" THEN Whitelisted(report.ams.o, amsGauges) ELSE {})
    \cup (IF report.vt_tray.t = "object" THEN Whitelisted(report.vt_tray.o, vtTrayGauges)
          ELSE {})

\* no key of the map is deleted, every gauge outside the set keeps its value
\* and no gauge outside the set is added; every gauge of the set is there
OnlySets(before, after, set) ==
    /\ DOMAIN before \subseteq DOMAIN after
    /\ \A gauge \in DOMAIN after \ set : gauge \in DOMAIN before /\ after[gauge] = before[gauge]
    /\ set \subseteq DOMAIN after

InventoryBuilt ==
    /\ merged.after.lastUpdated = 1
    /\ merged.report.ams.t = "object"
    /\ merged.report.ams.o.ams.t = "array"

ReportUnits == merged.report.ams.o.ams.a

\* the positions <<unit, tray>> of the trays of the units the report lists
TrayPositions ==
    {p \in (1..Len(ReportUnits)) \X (1..3) :
        ReportUnits[p[1]].tray.t = "array" /\ p[2] <= Len(ReportUnits[p[1]].tray.a)}

TrayAt(p) == ReportUnits[p[1]].tray.a[p[2]]

\* the id of an object is a string that starts with a number that is not negative
Indexed(x) ==
    /\ Field(x, "id").t = "string"
    /\ ~parseInt(Field(x, "id").s).nan
    /\ parseInt(Field(x, "id").s).n >= 0

IndexOfObject(x) == parseInt(Field(x, "id").s).n

GlobalTrayId(p) == IndexOfObject(ReportUnits[p[1]]) * 4 + IndexOfObject(TrayAt(p))

OnlyIdAndState(t) == DOMAIN t.fields \subseteq {"id", "state"}

\* the entry at place i is the entry of the tray at position p
EntryFor(i, p) ==
    /\ merged.after.amsTrays[i].trayId = GlobalTrayId(p)
    /\ merged.after.amsTrays[i].isEmpty = OnlyIdAndState(TrayAt(p))

\* the number of positions of a set that are not after p in report order
Rank(positions, p) ==
    Cardinality({q \in positions : q[1] < p[1] \/ (q[1] = p[1] /\ q[2] <= p[2])})

ExternalEntries == IF merged.report.vt_tray.t = "object" THEN 1 ELSE 0

DistinctTrayIds ==
    \A i, j \in 1..Len(merged.after.amsTrays) :
        merged.after.amsTrays[i].trayId = merged.after.amsTrays[j].trayId => i = j

\* C21 (as claimed): the inventory built from a report has one entry per tray
\* of every AMS unit, with trayId = unit index * 4 + slot index, plus one
\* entry 254 for vt_tray when present; no two entries share a trayId, and an
\* entry is empty exactly when its tray has no key other than id and state.
C21_OneEntryPerTray ==
    InventoryBuilt =>
        /\ Len(merged.after.amsTrays) = Cardinality(TrayPositions) + ExternalEntries
        /\ \A p \in TrayPositions : Indexed(ReportUnits[p[1]]) /\ Indexed(TrayAt(p))
        /\ \A p \in TrayPositions : EntryFor(Rank(TrayPositions, p), p)
        /\ merged.report.vt_tray.t = "object" =>
              /\ merged.after.amsTrays[Len(merged.after.amsTrays)].trayId = 254
              /\ merged.after.amsTrays[Len(merged.after.amsTrays)].isEmpty
                    = OnlyIdAndState(merged.report.vt_tray.o)
        /\ DistinctTrayIds

\* the positions of the trays that have an index in a unit that has an index
IndexedPositions ==
    {p \in TrayPositions : Indexed(ReportUnits[p[1]]) /\ Indexed(TrayAt(p))}

\* the listed indexes name each tray once: no two units share an index, no
\* two trays of a unit share one, slots are below 4 and units below 63
IndexesWellFormed ==
    /\ \A p, q \in IndexedPositions :
          /\ (p[1] # q[1]) => IndexOfObject(ReportUnits[p[1]]) # IndexOfObject(ReportUnits[q[1]])
          /\ (p[1] = q[1] /\ p[2] # q[2]) => IndexOfObject(TrayAt(p)) # IndexOfObject(TrayAt(q))
    /\ \A p \in IndexedPositions :
          IndexOfObject(TrayAt(p)) < 4 /\ IndexOfObject(ReportUnits[p[1]]) < 63

\* C21 (amended): the inventory built from a report whose ams.ams is an array
\* has, in report order, one entry per tray whose id and whose unit's id are
\* strings starting with a number that is not negative, with trayId = unit id
\* * 4 + slot id, followed by one entry 254 for vt_tray when present; an entry
\* is empty exactly when its tray has no key other than id and state; no two
\* entries share a trayId when the listed ids name each tray once.
C21_OneEntryPerIndexedTray ==
    InventoryBuilt =>
        /\ Len(merged.after.amsTrays) = Cardinality(IndexedPositions) + ExternalEntries
        /\ \A p \in IndexedPositions : EntryFor(Rank(IndexedPositions, p), p)
        /\ merged.report.vt_tray.t = "object" =>
              /\ merged.after.amsTrays[Len(merged.after.amsTrays)].trayId = 254
              /\ merged.after.amsTrays[Len(merged.after.amsTrays)].isEmpty
                    = OnlyIdAndState(merged.report.vt_tray.o)
        /\ IndexesWellFormed => DistinctTrayIds

\* an inventory of units 0 and 1 and the external tray was built: tray 1 and
\* tray 254 hold filament, tray 5 has only id and state
C21_Witness ==
    /\ InventoryBuilt
    /\ IndexesWellFormed
    /\ TrayIds(merged.after.amsTrays) = {0, 1, 5, 6, 254}
    /\ \E i, j, k \in 1..Len(merged.after.amsTrays) :
          /\ merged.after.amsTrays[i].trayId = 1 /\ ~merged.after.amsTrays[i].isEmpty
          /\ merged.after.amsTrays[j].trayId = 5 /\ merged.after.amsTrays[j].isEmpty
          /\ merged.after.amsTrays[k].trayId = 254 /\ ~merged.after.amsTrays[k].isEmpty

\* ------------------------------------------------------------------------
\* The state flag of a Prusa printer
\* ------------------------------------------------------------------------
\* the flags in the order of the claim, each with its number
FlagOrder ==
    <<"operational", "prepared", "paused", "printing", "cancelling", "pausing", "error",
      "sdReady", "closedOrError", "ready", "busy", "finished">>

FlagsOf(call) == call.printer.state.flags

\* the number of the first flag of the list that is true, 0 when none is
FirstTrue(flags, order) ==
    IF \E i \in 1..Len(order) : flags[order[i]]
    THEN CHOOSE i \in 1..Len(order) : flags[order[i]] /\ \A j \in 1..(i - 1) : ~flags[order[j]]
    ELSE 0

\* C28 (as claimed): getStateFlag returns the number of the first true flag in
\* the order operational(1), prepared(2), paused(3), printing(4),
\* cancelling(5), pausing(6), error(7), sdReady(8), closedOrError(9),
\* ready(10), busy(11), finished(12), and 0 when no flag is true.
C28_FirstTrueFlag ==
    stateFlag.flag # None => stateFlag.flag[1] = FirstTrue(FlagsOf(stateFlag), FlagOrder)

\* the flags with closedOnError counted as closedOrError
WithClosedOnError(flags) ==
    [flags EXCEPT !.closedOrError = flags.closedOrError \/ flags.closedOnError]

\* C28 (amended): getStateFlag returns the number of the first true flag in
\* that order, where number 9 stands for closedOrError or closedOnError, and
\* 0 when none of the thirteen flags is true; printing and error both true
\* with no earlier flag true yields 4, never 7.
C28_FirstTrueFlagOfThirteen ==
    stateFlag.flag # None =>
        /\ stateFlag.flag[1] = FirstTrue(WithClosedOnError(FlagsOf(stateFlag)), FlagOrder)
        /\ (stateFlag.flag[1] = 0) = (\A name \in FlagNames : ~FlagsOf(stateFlag)[name])
        /\ (/\ FlagsOf(stateFlag).printing /\ FlagsOf(stateFlag).error
            /\ ~FlagsOf(stateFlag).operational /\ ~FlagsOf(stateFlag).prepared
            /\ ~FlagsOf(stateFlag).paused) => stateFlag.flag[1] = 4

\* printing and error were both true with no earlier flag true: the flag is 4
C28_Witness ==
    /\ stateFlag.flag = Some(4)
    /\ FlagsOf(stateFlag).printing /\ FlagsOf(stateFlag).error

\* ------------------------------------------------------------------------
\* The Prusa collector
\* ------------------------------------------------------------------------
\* the scrape of a printer ended because a required endpoint did not answer
RequiredFailed(sc) == sc.pc = "done" /\ (sc.job = None \/ sc.pd = None \/ sc.ver = None)

\* the sample lines of the output that carry the address of a printer
LinesOfPrinter(lines, printer) ==
    SelectSeq(lines, LAMBDA l : l.line = "sample"
                                /\ l.labels["printer_address"] = Str(printer.ipAddress))

\* C22: when /api/job, /api/printer or /api/version fails for a printer
\* (network error, timeout or non-2xx), the samples of that printer are
\* exactly one prusa_up sample with value 0, also in the output of the run,
\* and no /api/v1/status or /api/v1/info request is sent to it.
C22_UnreachableIsOneSample ==
    \A i \in 1..Len(prusa.scrapes) :
        LET sc == prusa.scrapes[i] IN
        RequiredFailed(sc) =>
            /\ Len(sc.samples) = 1
            /\ sc.samples[1].metric = "prusa_up"
            /\ sc.samples[1].value = Value(0)
            /\ Range(sc.requests) \cap {"/api/v1/status", "/api/v1/info"} = {}
            /\ prusa.run = "fulfilled" =>
                  LET own == LinesOfPrinter(prusa.lines, sc.printer) IN
                  /\ Len(own) = 1
                  /\ own[1].name = "prusa_up"
                  /\ own[1].value = Value(0)

\* /api/version of the first printer failed after two answers, the second
\* printer answered everything, and the run resolved
C22_Witness ==
    /\ prusa.run = "fulfilled"
    /\ Len(prusa.scrapes) = 2
    /\ RequiredFailed(prusa.scrapes[1])
    /\ prusa.scrapes[1].requests = <<"/api/job", "/api/printer", "/api/version">>
    /\ prusa.scrapes[2].ver # None
    /\ Len(LinesOfPrinter(prusa.lines, PrusaTwo)) > 1

\* the samples of a line sequence, without the line kind
SamplesOfLines(lines) ==
    [i \in 1..Len(lines) |-> [metric |-> lines[i].name, value |-> lines[i].value,
                              labels |-> lines[i].labels]]

SameSamples(a, b) ==
    /\ Len(a) = Len(b)
    /\ \A e \in Range(a) \cup Range(b) :
          Cardinality({i \in 1..Len(a) : a[i] = e}) = Cardinality({i \in 1..Len(b) : b[i] = e})

\* C23 (as claimed): in one run the samples emitted for a printer are those of
\* its own scrape, whatever happens to the other printers, and the run
\* resolves however the scrapes of the printers end.
C23_PrintersIsolated ==
    (prusa.run \in {"fulfilled", "rejected"} /\ prusa.scrapes # <<>>) =>
        /\ prusa.run = "fulfilled"
        /\ \A i \in 1..Len(prusa.scrapes) :
              SameSamples(SamplesOfLines(LinesOfPrinter(prusa.lines, prusa.scrapes[i].printer)),
                          prusa.scrapes[i].samples)

\* ------------------------------------------------------------------------
\* The metrics response
\* ------------------------------------------------------------------------
\* the lines of a text: the runs between line breaks
LinesOfText(text) ==
    LET breaks == {i \in 1..Len(text) : text[i] = "\n"}
        break(k) == IF k = 0 THEN 0
                    ELSE IF k > Cardinality(breaks) THEN Len(text) + 1
                    ELSE CHOOSE i \in breaks : Cardinality({j \in breaks : j <= i}) = k
    IN [k \in 1..(Cardinality(breaks) + 1) |-> SubSeq(text, break(k - 1) + 1, break(k) - 1)]

StartsWith(s, prefix) == Len(s) >= Len(prefix) /\ SubSeq(s, 1, Len(prefix)) = prefix

Contains(s, part) == \E i \in 0..(Len(s) - Len(part)) : SubSeq(s, i + 1, i + Len(part)) = part

\* the sections collectMetrics runs, by the environment of the call
EnabledSections(call) ==
    (IF call.METRICS_PRUSA_ENABLED # "false" THEN <<call.prusa>> ELSE <<>>)
    \o <<call.inventory>>
    \o (IF call.METRICS_BAMBU_ENABLED # "false" THEN <<Fulfilled(call.bambu)>> ELSE <<>>)

\* C24 (as claimed): collectMetrics resolves with a text that ends in a
\* newline whichever section fails; every failed section shows as one
\* "# ERROR" comment line, every other line of the text is a line of a section
\* that did not fail or a blank separator, and the text of each section that
\* did not fail is in the output.
C24_FailuresAreCommentLines ==
    collected.settled # "pending" =>
        LET sections == EnabledSections(collected)
            lines == LinesOfText(collected.text)
            failed == {i \in 1..Len(sections) : sections[i].status = "rejected"}
            kept == {i \in 1..Len(sections) :
                        sections[i].status = "fulfilled" /\ sections[i].value # NoText}
        IN /\ collected.settled = "fulfilled"
           /\ collected.text[Len(collected.text)] = "\n"
           /\ Cardinality({l \in 1..Len(lines) : StartsWith(lines[l], <<"#", " ", "E", "R", "R", "O", "R">>)})
                 = Cardinality(failed)
           /\ \A l \in 1..Len(lines) :
                 \/ lines[l] = <<>>
                 \/ StartsWith(lines[l], <<"#", " ", "E", "R", "R", "O", "R">>)
                 \/ \E i \in kept : lines[l] \in Range(LinesOfText(sections[i].value))
           /\ \A i \in kept : Contains(collected.text, trimEnd(sections[i].value))

\* ------------------------------------------------------------------------
\* A Bambu printer that left the roster
\* ------------------------------------------------------------------------
\* the serial numbers of the Bambu printers of the roster
RosterSerials == {BambuRoster(printers)[i].serialNumber : i \in 1..Len(BambuRoster(printers))}

\* the names collectBambuMetrics labels its samples with
ExportedPrinters == {sample.printer : sample \in collectBambuMetrics(metricsCache)}

\* C25 (as claimed): once a sync has applied the roster the store holds, a
\* printer that is no longer in the roster has no entry in the pool and none
\* in the metrics store, and collectBambuMetrics exports no sample for it.
C25_GonePrinterForgotten ==
    rosterSynced =>
        /\ DOMAIN pool \subseteq RosterSerials
        /\ DOMAIN metricsCache \subseteq RosterSerials
        /\ ExportedPrinters \subseteq {pool[s].printerName : s \in DOMAIN pool}

\* ------------------------------------------------------------------------
\* C26
\* ------------------------------------------------------------------------
LogOf(c) == handshake[c].log

CallsBefore(c, i, call) == Cardinality({j \in 1..i : LogOf(c)[j].call = call})

\* C26: on every connect event of a pool client the handler subscribes to
\* device/{serial}/report, once; the pushall command is published on
\* device/{serial}/request only in the callback of a subscribe that
\* succeeded, and every such callback publishes it exactly once; a callback
\* that reports a failure publishes nothing
C26_SubscribeThenPushall ==
    \A c \in PoolClientIds :
        LET log == LogOf(c)
            serial == clients[c].serialNumber
        IN \A i \in 1..Len(log) :
              /\ log[i].call = "connect" =>
                    /\ i < Len(log)
                    /\ log[i + 1] = Event("subscribe", reportTopic(serial), NoPayload)
              /\ log[i].call = "subscribe" => i > 1 /\ log[i - 1].call = "connect"
              /\ log[i].call = "publish" =>
                    /\ i > 1
                    /\ log[i - 1].call = "subscribed"
                    /\ log[i] = Event("publish", requestTopic(serial), pushallPayload)
              /\ log[i].call = "subscribed" =>
                    /\ i < Len(log)
                    /\ log[i + 1].call = "publish"
              /\ CallsBefore(c, i, "publish") <= CallsBefore(c, i, "subscribed")
              /\ CallsBefore(c, i, "subscribed") + CallsBefore(c, i, "subscribe failed")
                    <= CallsBefore(c, i, "subscribe")

\* a client that reconnected: two connect events, one subscribe that failed
\* and one that succeeded, one pushall
C26_Witness ==
    \E c \in PoolClientIds :
        /\ CallsBefore(c, Len(LogOf(c)), "connect") = 2
        /\ CallsBefore(c, Len(LogOf(c)), "subscribe failed") = 1
        /\ CallsBefore(c, Len(LogOf(c)), "subscribed") = 1
        /\ CallsBefore(c, Len(LogOf(c)), "publish") = 1

\* ------------------------------------------------------------------------
\* C27
\* ------------------------------------------------------------------------
\* the dispatch got a 2xx answer to a start request
StartAnswered == dp.poll >= 1

Confirmed(state) == toUpperCase(state) \in {<<"P", "R", "I", "N", "T", "I", "N", "G">>, <<"P", "A", "U", "S", "E", "D">>}

\* C27 as stated: after a 2xx start answer the dispatch declares success only
\* when a poll confirmed PRINTING or PAUSED or when polling itself failed
C27_SuccessOnlyWhenConfirmed ==
    (StartAnswered /\ dp.pc = "returned") => (Confirmed(dp.postStartState) \/ dp.pollFailed)

\* C27, amended: after a 2xx start answer the dispatch polls /api/v1/status
\* at most 4 times, polls on only while no poll reported PRINTING or PAUSED,
\* never throws, and declares success when a poll confirmed PRINTING or
\* PAUSED, when polling failed, and also when the fourth poll reported
\* another state
C27_PollsThenSuccess ==
    StartAnswered =>
        /\ dp.poll <= 4
        /\ dp.pc \in {"poll", "returned"}
        /\ dp.pc = "poll" => ~Confirmed(dp.postStartState) /\ ~dp.pollFailed
        /\ dp.pc = "returned" =>
              \/ Confirmed(dp.postStartState)
              \/ dp.pollFailed
              \/ dp.poll = 4

\* four polls answered, none with PRINTING or PAUSED, and success declared
C27_Witness ==
    /\ dp.pc = "returned"
    /\ dp.poll = 4
    /\ ~dp.pollFailed
    /\ ~Confirmed(dp.postStartState)

\* ------------------------------------------------------------------------
\* C29
\* ------------------------------------------------------------------------
\* the client of the entry has had a connect event
HandshakeCompleted(serial) == Connects(pool[serial].client) >= 1

\* C29: getPoolClient(serial) returns the client of the pool entry of that
\* serial number exactly when the entry exists, its client has had a connect
\* event and the client is connected now; it returns null for a serial
\* number without entry, before the first connect event, and whenever the
\* client has lost the connection
C29_ClientOnlyWhileConnected ==
    \A serial \in Serials :
        /\ getPoolClient(serial) # None <=>
              /\ serial \in DOMAIN pool
              /\ HandshakeCompleted(serial)
              /\ clients[pool[serial].client].connected
        /\ getPoolClient(serial) # None => getPoolClient(serial) = Some(pool[serial].client)
        /\ serial \notin DOMAIN pool => getPoolClient(serial) = None
        /\ (serial \in DOMAIN pool /\ ~HandshakeCompleted(serial)) => getPoolClient(serial) = None
        /\ (serial \in DOMAIN pool /\ ~clients[pool[serial].client].connected)
              => getPoolClient(serial) = None

\* one serial number has no entry, one entry is in its first handshake or
\* its client lost the connection after a connect, and one is connected
C29_Witness ==
    /\ \E serial \in Serials : serial \notin DOMAIN pool
    /\ \E serial \in DOMAIN pool :
          /\ HandshakeCompleted(serial)
          /\ ~clients[pool[serial].client].connected
          /\ getPoolClient(serial) = None
    /\ \E serial \in DOMAIN pool : getPoolClient(serial) = Some(pool[serial].client)

\* ------------------------------------------------------------------------
\* C30
\* ------------------------------------------------------------------------
SafeChars == AlphaNum \cup {".", "_", "-"}

Sanitized == sanitized.result[1]

\* C30: for every name, sanitizeFilename returns a text of at most 120
\* characters, all of them letters, digits, dot, underscore or hyphen; the
\* result keeps each of these characters of the first 120 of the name where
\* it was and has one underscore in the place of each other character;
\* sanitizing the result again returns it unchanged; a result that is not
\* empty passes the file name check of validateBambuInputs
C30_SanitizedNameIsSafe ==
    sanitized.result # None =>
        /\ Len(Sanitized) <= 120
        /\ Len(Sanitized) = Min(Len(sanitized.name), 120)
        /\ \A i \in 1..Len(Sanitized) :
              /\ Sanitized[i] \in SafeChars
              /\ Sanitized[i] = IF sanitized.name[i] \in SafeChars THEN sanitized.name[i] ELSE "_"
        /\ sanitizeFilename(Sanitized) = Sanitized
        /\ Sanitized # NoText =>
              /\ SAFE_FILENAME_RE(Sanitized)
              /\ validateBambuInputs(IpOne, TokenA, SerialA, Sanitized) = NoError

\* a name of more than 120 characters with characters outside the allowed
\* set among the first 120 and after them
C30_Witness ==
    /\ sanitized.result # None
    /\ Len(sanitized.name) > 120
    /\ \E i \in 1..120 : sanitized.name[i] \notin SafeChars
    /\ \E i \in 121..Len(sanitized.name) : sanitized.name[i] \notin SafeChars
    /\ Len(Sanitized) = 120

\* ------------------------------------------------------------------------
\* C31
\* ------------------------------------------------------------------------
ModeRespected(d, call) ==
    /\ d.mode = "upload_only" => "start" \notin d.sent
    /\ d.mode = "start_only" => "upload" \notin d.sent
    /\ d.sent = {"upload", "start"} => d.mode = "upload_and_start"
    /\ d.printer.type = "BAMBU" =>
          /\ d.sent = {}
          /\ d.mode # "upload_and_start" => call.effects = {}

\* C31: a dispatch in mode upload_only sends no start request and one in
\* mode start_only sends no upload request, to a Prusa printer and (where
\* both modes are refused at once) to a Bambu printer; only a dispatch in
\* mode upload_and_start sends both, and its first start request is sent
\* when an upload request has been sent before
C31_ModeChoosesRequests ==
    [][/\ ModeRespected(dp', bd')
       /\ ("start" \in dp'.sent /\ "start" \notin dp.sent /\ dp'.mode = "upload_and_start")
             => "upload" \in dp.sent]_vars

\* an upload_and_start dispatch that sent both and returned, after another
\* mode was served
C31_Witness ==
    /\ dp.mode = "upload_and_start"
    /\ dp.printer.type = "PRUSA"
    /\ dp.sent = {"upload", "start"}
    /\ dp.pc = "returned"

\* ------------------------------------------------------------------------
\* C32
\* ------------------------------------------------------------------------
\* the start requests in the order of the claim: the two file endpoints
\* name the storage, the two job endpoints carry it in their body
StartOrder(storage) ==
    <<[api |-> "v1", endpoint |-> Lit("/api/v1/files/") \o storage, body |-> Undefined],
      [api |-> "legacy", endpoint |-> Lit("/api/files/") \o storage, body |-> Undefined],
      [api |-> "v1", endpoint |-> Lit("/api/v1/job"), body |-> Lit("/") \o storage],
      [api |-> "legacy", endpoint |-> Lit("/api/job"), body |-> Lit("/") \o storage]>>

AnsweredStart(d, answer) ==
    LET next == prusaStarted(d, answer) IN
    IF answer.status # 0 /\ ok(answer.status)
    THEN next.pc = "poll"
    ELSE IF answer.status \in {404, 410}
    THEN IF d.attempt < 4
         THEN next.pc = "start" /\ next.attempt = d.attempt + 1
         ELSE next.pc = "threw" /\ next.error.code = "BAD_REQUEST"
    ELSE next.pc = "threw"

\* C32: the start phase sends its requests in the order /api/v1/files,
\* /api/files, /api/v1/job, /api/job, beginning with the first; an answer
\* 2xx ends the phase and no start request follows it; 404 and 410 lead to
\* the next endpoint and, at the fourth, to a thrown BAD_REQUEST; any other
\* answer makes the dispatch throw at once
C32_StartProbing ==
    [][/\ dp.pc = "start" =>
             /\ dp.attempt \in 1..4
             /\ startAttempts(dp.resolvedStorageForStart) = StartOrder(dp.resolvedStorageForStart)
             /\ \A answer \in HttpAnswers : AnsweredStart(dp, answer)
             /\ dp'.pc \in {"start", "poll", "threw"}
       /\ (dp.pc # "start" /\ dp'.pc = "start") => dp'.attempt = 1
       /\ dp.pc = "poll" => dp'.pc \in {"poll", "returned"}]_vars

\* all four start endpoints answered 404 or 410 and the dispatch threw
C32_Witness ==
    /\ dp.pc = "threw"
    /\ dp.attempt = 4
    /\ dp.attemptErrors = 4
    /\ "start" \in dp.sent

\* ------------------------------------------------------------------------
\* C33
\* ------------------------------------------------------------------------
StatusQuery(serialNumber) == getBambuStatus(MonitorState, IpOne, TokenA, serialNumber)

Reported(status) == status # createEmptyStatus

\* C33: a getBambuStatus call returns a status only when the cache has an
\* entry for the serial number whose client has connected and into whose
\* status a report was merged, and then the status of that entry; a call
\* that finds no entry creates one and returns null, and a call that finds
\* an entry without a merged report returns null
C33_SnapshotOnlyAfterReport ==
    \A serialNumber \in {SerialA, SerialB} :
        LET query == StatusQuery(serialNumber) IN
        /\ query.threw = NoError
        /\ query.status # Undefined =>
              /\ serialNumber \in DOMAIN monitorCache
              /\ ~monitorCache[serialNumber].connecting
              /\ clients[monitorCache[serialNumber].client].connected
              /\ Reported(monitorCache[serialNumber].status)
              /\ monitorCache[serialNumber].status.lastUpdated # 0
              /\ query.status = monitorCache[serialNumber].status.gcodeState
        /\ serialNumber \notin DOMAIN monitorCache =>
              /\ query.status = Undefined
              /\ serialNumber \in DOMAIN query.ms.cache
              /\ query.ms.cache[serialNumber].connecting
              /\ query.ms.cache[serialNumber].status = createEmptyStatus
        /\ (serialNumber \in DOMAIN monitorCache
                /\ ~Reported(monitorCache[serialNumber].status)) => query.status = Undefined

\* a call is answered with the status of an entry that took a report
C33_Witness ==
    \E serialNumber \in DOMAIN monitorCache :
        /\ StatusQuery(serialNumber).status # Undefined
        /\ Reported(monitorCache[serialNumber].status)

\* ------------------------------------------------------------------------
\* C34
\* ------------------------------------------------------------------------
\* this step is the call of dispatchToPrinter for a Bambu printer in mode
\* upload_and_start, up to its first await
BambuCall ==
    /\ rc.proc = "none"
    /\ rc'.proc # "none"
    /\ dp'.pc # "idle"
    /\ dp'.printer.type = "BAMBU"
    /\ dp'.mode = "upload_and_start"

\* what the status cache returns to that call: a gcode state, Undefined for
\* null and for a call that throws
Snapshot ==
    LET printer == dp'.printer
        query == getBambuStatus(MonitorState, printer.ipAddress, printer.authToken,
                                printer.serialNumber)
    IN IF query.threw # NoError THEN Undefined ELSE query.status

Busy(gcodeState) ==
    \E name \in {<<"r", "u", "n", "n", "i", "n", "g">>, <<"p", "a", "u", "s", "e">>, <<"p", "r", "e", "p", "a", "r", "e">>} : toLowerCase(gcodeState) = name

NotReady(d) ==
    /\ d.pc = "threw"
    /\ d.error.code = "BAD_REQUEST"
    /\ d.error.message[1] = "Bambu printer is not ready to start a new job (state="

InputsAccepted(printer, fileName) ==
    validateBambuInputs(printer.ipAddress, printer.authToken, printer.serialNumber, fileName)
        = NoError

\* C34 as stated: the dispatch is refused before any upload exactly when the
\* cache returns a status that is RUNNING, PAUSE or PREPARE, and with no
\* status from the cache it goes on to the FTPS upload
C34_RefusedExactlyWhenBusy ==
    [][BambuCall =>
          /\ dp'.pc = "threw" <=> (Snapshot # Undefined /\ Busy(Snapshot))
          /\ Snapshot = Undefined => bd'.pc = "writeFile"]_vars

\* C34, amended: the dispatch is refused as not ready, before any upload,
\* exactly when the cache returns a status that is RUNNING, PAUSE or PREPARE
\* in any letter case; with another status or none, a dispatch whose
\* arguments are accepted goes on to the FTPS upload, or returns at once
\* without upload when BAMBU_BRIDGE_MOCK_SUCCESS is "1"; a dispatch whose
\* arguments are not accepted throws before any upload
C34_RefusedWhenBusyElseDispatched ==
    [][BambuCall =>
          LET busy == Snapshot # Undefined /\ Busy(Snapshot)
              accepted == InputsAccepted(dp'.printer, dp'.originalFilename)
          IN /\ NotReady(dp') <=> busy
             /\ busy => bd' = NoBambu
             /\ (~busy /\ accepted /\ BAMBU_BRIDGE_MOCK_SUCCESS # "1") =>
                   dp'.pc = "bambu" /\ bd'.pc = "writeFile"
             /\ (~busy /\ accepted /\ BAMBU_BRIDGE_MOCK_SUCCESS = "1") =>
                   dp'.pc = "returned" /\ bd' = NoBambu
             /\ ~accepted => dp'.pc = "threw" /\ bd' = NoBambu]_vars

\* a dispatch was refused as not ready and nothing was uploaded
C34_Witness ==
    /\ dp.printer.type = "BAMBU"
    /\ NotReady(dp)
    /\ bd = NoBambu

\* ------------------------------------------------------------------------
\* C35
\* ------------------------------------------------------------------------
\* the scrapes of the current run that ended with the one prusa_up 0 sample
FailedScrapes ==
    {i \in 1..Len(prusa.scrapes) :
        /\ prusa.scrapes[i].pc = "done"
        /\ Len(prusa.scrapes[i].samples) = 1
        /\ prusa.scrapes[i].samples[1].metric = "prusa_up"
        /\ prusa.scrapes[i].samples[1].value = Value(0)}

ModelLabel(i) == prusa.scrapes[i].samples[1].labels["printer_model"]

AddressOf(i) == prusa.scrapes[i].printer.ipAddress

UpLines(lines, printer) ==
    SelectSeq(LinesOfPrinter(lines, printer), LAMBDA l : l.name = "prusa_up")

\* C36: in the output of every run that resolves, each printer of the roster
\* has exactly one prusa_up sample, with value 1 when its scrape produced
\* all its samples and with value 0 when a required endpoint did not answer
\* or the scrape failed on an incomplete payload
C36_EveryPrinterHasUpSample ==
    prusa.run = "fulfilled" =>
        \A i \in 1..Len(prusa.scrapes) :
            LET sc == prusa.scrapes[i]
                up == UpLines(prusa.lines, sc.printer)
            IN /\ Len(up) = 1
               /\ up[1].value = IF sc.pc = "done" /\ ~RequiredFailed(sc) THEN Value(1)
                                ELSE Value(0)

\* ------------------------------------------------------------------------
\* C37
\* ------------------------------------------------------------------------
\* the call completes as the last one of the calls that are under way
CompletesLast(call) == Completes(call) /\ syncs' = EmptyBag

\* another call read the roster the store holds now, after `call' read its
\* own, and has completed while `call' was suspended
HoldsOlderRoster(call) == rosterSynced /\ call.rows # BambuRoster(printers)

\* C37: when two sync calls overlap and the roster changed between their
\* reads, then after both have completed the pool matches the roster that
\* was read last, whichever call resumes first; the call that holds the
\* older roster disconnects no printer of the newer roster.
C37_NewestRosterWins ==
    [][\A call \in BagToSet(syncs) :
          (CompletesLast(call) /\ (HoldsOlderRoster(call) \/ call.rows = BambuRoster(printers)))
              => PoolMatches(BambuRoster(printers))']_vars

\* the same, for the order in which the calls resume in the order of their
\* reads only
C37_NewestRosterWinsInReadOrder ==
    [][\A call \in BagToSet(syncs) :
          (CompletesLast(call) /\ call.rows = BambuRoster(printers))
              => PoolMatches(BambuRoster(printers))']_vars

\* ------------------------------------------------------------------------
\* C38
\* ------------------------------------------------------------------------
AliveMonitorClients(serial) ==
    {c \in MonitorClientIds : clients[c].serialNumber = serial /\ ~clients[c].ended}

\* C38: for each serial at most one client created by connectBambuMonitor is
\* alive (created and not ended) at any time: every such client is the
\* client of the current cache entry of its serial or has been ended, also
\* after close and error events and after a new entry was created for the
\* same serial.
C38_OneMonitorClientPerSerial ==
    \A serial \in Serials :
        /\ Cardinality(AliveMonitorClients(serial)) <= 1
        /\ \A c \in AliveMonitorClients(serial) :
              /\ serial \in DOMAIN monitorCache
              /\ monitorCache[serial].client = c

\* ------------------------------------------------------------------------
\* C39
\* ------------------------------------------------------------------------
\* an initBambuMetricsListener call returns in this step
InitListenerReturns == listenerInit'.calls # listenerInit.calls

\* C39: whenever initBambuMetricsListener has returned, the metrics listener
\* is in the listener set of the pool (a set: once), for every sequence of
\* listener init, listener shutdown, pool init and pool shutdown calls.
C39_ListenerRegisteredAfterInit ==
    [][InitListenerReturns => "metrics" \in listeners']_vars

\* the same, for the calls made while no pool shutdown has emptied the
\* listener set since the listener was made
C39_RegisteredUnlessPoolShutDown ==
    [][(InitListenerReturns /\ (listenerInit.registered => "metrics" \in listeners))
          => "metrics" \in listeners']_vars

\* ------------------------------------------------------------------------
\* C40
\* ------------------------------------------------------------------------
\* the upload request the dispatch is waiting on
CurrentUpload == uploadEndpointCandidates(dp.prusaStorageName)[dp.candidate]

\* the upload request is accepted and the start phase sends its first request
UploadThenStart == dp.pc = "upload" /\ dp'.pc = "start"

\* C40: in one Prusa dispatch in mode upload_and_start the printer is asked
\* to start the print at most once: when the start phase follows an upload,
\* the accepted upload request carried no start-on-upload instruction.
C40_StartAskedOnce ==
    [][UploadThenStart =>
          "Print-After-Upload" \notin uploadHeaders(dp.mode, CurrentUpload.method)]_vars

\* the same, for the uploads sent as a form (POST)
C40_StartAskedOnceAfterForm ==
    [][(UploadThenStart /\ CurrentUpload.method = "POST") =>
          "Print-After-Upload" \notin uploadHeaders(dp.mode, CurrentUpload.method)]_vars

====
